---- MODULE Spec2Model ----
(***************************************************************************)
(* A model of pymp3frame's synchronisation and framing pipeline:           *)
(*   mp3frame/mp3bits.py   bit tables and frame_size                        *)
(*   mp3frame/bitfields.py bit-field getters                                *)
(*   mp3frame/frames.py    FrameHeader._decode, MP3Frame                    *)
(*   mp3frame/side_info.py part2_3_bytes, part2_3_end, main_data_begin      *)
(*   mp3frame/mp3ext.py    comment tag detectors                            *)
(*   mp3frame/sync.py      BaseSync, PhysicalFrameSync, FileSyncWrapper     *)
(*                                                                         *)
(* Byte arrays are sequences of 0..255; Python's d[i] is d[i+1] here.      *)
(* A 32-bit word (a header, a mask) is kept as its four big-endian bytes,   *)
(* since every word the code builds is tested byte by byte under a mask.    *)
(* A Python call that may raise is modelled by a record that carries the    *)
(* exception's name in exc ("" when the call returns).                      *)
(***************************************************************************)
EXTENDS Integers, Sequences, FiniteSets, TLC

VARIABLES
    input,            \* the whole content of the file being read
    file,             \* the part of the file not yet read
    data,             \* BaseSync.data
    bytes_returned,   \* BaseSync.bytes_returned
    read_eof,         \* BaseSync.read_eof
    sync_skip,        \* BaseSync.sync_skip
    synced,           \* PhysicalFrameSync.synced
    frames_returned,  \* PhysicalFrameSync.frames_returned
    base_framesize,   \* PhysicalFrameSync.base_framesize
    out,              \* the items returned so far, in order
    ret,              \* the outcome of the last call made on the object
    reservoir,        \* LogicalFrameAssembler.reservoir
    last_end,         \* LogicalFrameAssembler.last_end
    ancillary_skipped,\* LogicalFrameAssembler.ancillary_skipped
    args              \* the arguments of the function that is called

vars == <<input, file, data, bytes_returned, read_eof, sync_skip, synced,
          frames_returned, base_framesize, out, ret, reservoir, last_end,
          ancillary_skipped, args>>

\* what the methods of BaseSync and PhysicalFrameSync never touch
others == <<reservoir, last_end, ancillary_skipped, args>>

----------------------------------------------------------------------------
(* Python helpers *)

Min(a, b) == IF a < b THEN a ELSE b
Max(a, b) == IF a > b THEN a ELSE b

\* d[a:b] for 0 <= a, 0 <= b
Slice(d, a, b) == SubSeq(d, a + 1, Min(b, Len(d)))

\* d[a:] for 0 <= a
From(d, a) == SubSeq(d, a + 1, Len(d))

\* d[-n:] for n > 0
Last(d, n) == SubSeq(d, Max(1, Len(d) - n + 1), Len(d))

RECURSIVE Pow2(_)
Pow2(n) == IF n = 0 THEN 1 ELSE 2 * Pow2(n - 1)

\* a & b on non-negative integers
RECURSIVE BitAnd(_, _)
BitAnd(a, b) ==
    IF a = 0 \/ b = 0 THEN 0
    ELSE (a % 2) * (b % 2) + 2 * BitAnd(a \div 2, b \div 2)

\* a >> n, a << n
Shr(a, n) == a \div Pow2(n)
Shl(a, n) == a * Pow2(n)

Zeros(n) == [i \in 1..n |-> 0]

\* a local variable: v is computed once, and Body is applied to its value
Bind(v, Body(_)) == CHOOSE y \in { Body(w) : w \in {v} } : TRUE

----------------------------------------------------------------------------
(* mp3frame/mp3bits.py *)

Raise(e)   == [exc |-> e,  none |-> FALSE, val |-> 0]
Return(v)  == [exc |-> "", none |-> FALSE, val |-> v]
ReturnNone == [exc |-> "", none |-> TRUE,  val |-> 0]

\* _brs(...): kbps to bps; entry 1 is bitrate_index 0 (free format, None)
br_v1L1 == <<32,64,96, 128,160,192,224, 256,288,320,352, 384,416,448>>
br_v1L2 == <<32,48,56,  64, 80, 96,112, 128,160,192,224, 256,320,384>>
br_v1L3 == <<32,40,48,  56, 64, 80, 96, 112,128,160,192, 224,256,320>>
br_v2L1 == <<32,48,56,  64, 80, 96,112, 128,144,160,176, 192,224,256>>
br_v2L2 == << 8,16,24,  32, 40, 48, 56,  64, 80, 96,112, 128,144,160>>
br_v2L3 == br_v2L2

\* _br_tables[version_index][layer_index] (layer_index 1..3)
br_tables(version_index, layer_index) ==
    IF version_index = 3
    THEN (IF layer_index = 1 THEN br_v1L3
          ELSE IF layer_index = 2 THEN br_v1L2 ELSE br_v1L1)
    ELSE (IF layer_index = 1 THEN br_v2L3
          ELSE IF layer_index = 2 THEN br_v2L2 ELSE br_v2L1)

\* _sr_table[version_index][samplerate_index]; 0 stands for None
sr_table == << <<11025, 12000,  8000, 0>>,
               <<    0,     0,     0, 0>>,
               <<22050, 24000, 16000, 0>>,
               <<44100, 48000, 32000, 0>> >>

\* _spf_table[version_index][layer_index]; 0 stands for None
spf_table == << <<0,  576, 1152, 384>>,
                <<0,    0,    0,   0>>,
                <<0,  576, 1152, 384>>,
                <<0, 1152, 1152, 384>> >>

samples_per_frame(version_index, layer_index) ==
    IF spf_table[version_index + 1][layer_index + 1] = 0
    THEN Raise("MP3ReservedError")
    ELSE Return(spf_table[version_index + 1][layer_index + 1])

samplerate(version_index, samplerate_index) ==
    IF sr_table[version_index + 1][samplerate_index + 1] = 0
    THEN Raise("MP3ReservedError")
    ELSE Return(sr_table[version_index + 1][samplerate_index + 1])

bitrate(version_index, layer_index, bitrate_index) ==
    IF version_index = 1 \/ layer_index = 0 \/ bitrate_index = 15
    THEN Raise("MP3ReservedError")
    ELSE IF bitrate_index = 0 THEN ReturnNone
    ELSE Return(br_tables(version_index, layer_index)[bitrate_index] * 1000)

sample_size(layer_index) ==
    IF layer_index = 3 THEN Return(4)
    ELSE IF layer_index = 0 THEN Raise("MP3ReservedError")
    ELSE Return(1)

frame_size(version_index, layer_index, bitrate_index, samplerate_index, padding) ==
    LET br  == bitrate(version_index, layer_index, bitrate_index)
        spf == samples_per_frame(version_index, layer_index)
        sr  == samplerate(version_index, samplerate_index)
        ss  == IF layer_index = 3 THEN 4 ELSE 1
    IN  IF br.exc # "" THEN br
        ELSE IF br.none THEN ReturnNone
        ELSE IF spf.exc # "" THEN spf
        ELSE IF sr.exc # "" THEN sr
        ELSE Return((((spf.val \div (ss * 8)) * br.val) \div sr.val)
                    + (IF padding # 0 THEN ss ELSE 0))

\* lines 194-208: the first bitrate_index from idx on whose padded frame
\* has 'bytes' bytes or more
RECURSIVE min_bitrate_loop(_, _, _, _, _, _)
min_bitrate_loop(bitrates, idx, mult, ss, sr, bytes) ==
    IF idx > Len(bitrates) THEN ReturnNone
    ELSE LET br   == bitrates[idx] * 1000
             size == (((mult * br) \div sr) + 1) * ss
         IN  IF size >= bytes
             THEN Return([ bitrate_index |-> idx,
                           padding |-> ~(size - ss >= bytes),
                           size    |-> IF size - ss >= bytes
                                       THEN size - ss ELSE size,
                           bitrate |-> br ])
             ELSE min_bitrate_loop(bitrates, idx + 1, mult, ss, sr, bytes)

\* lines 170-210, for a version and a layer that are not reserved
min_bitrate_index(version_index, layer_index, samplerate_index, bytes) ==
    LET sr   == samplerate(version_index, samplerate_index)
        ss   == IF layer_index = 3 THEN 4 ELSE 1
        mult == IF layer_index = 3 THEN 12
                ELSE IF layer_index = 1 /\ version_index # 3 THEN 72
                ELSE 144
    IN  IF sr.exc # "" THEN sr
        ELSE min_bitrate_loop(br_tables(version_index, layer_index), 1,
                              mult, ss, sr.val, bytes)

\* _side_info_size[lsf][mono]
side_info_size(version_index, channel_mode) ==
    IF version_index # 3
    THEN (IF channel_mode = 3 THEN 9 ELSE 17)
    ELSE (IF channel_mode = 3 THEN 17 ELSE 32)

\* _side_info_bit_offsets[lsf][mono]
side_info_bit_offsets(version_index, channel_mode) ==
    IF version_index # 3
    THEN (IF channel_mode = 3 THEN <<9>> ELSE <<10, 73>>)
    ELSE (IF channel_mode = 3 THEN <<18, 77>> ELSE <<20, 79, 138, 197>>)

----------------------------------------------------------------------------
(* mp3frame/bitfields.py: the getter of make_property(name, offset, bits) *)

\* _high0_mask[x] = 0xff >> x;  _high1_mask[x] = (0xff00 >> x) & 0xff
high0_mask(x) == Shr(255, x)
high1_mask(x) == Shr(65280, x) % 256

get_simple(raw, offset, bits) ==
    LET start    == offset \div 8
        end_bits == (offset + bits) % 8
        shift    == 8 - end_bits
        mask     == Shr(high1_mask(bits), offset % 8)
    IN  Shr(BitAnd(raw[start + 1], mask), shift)

RECURSIVE get_whole_bytes(_, _, _, _)
get_whole_bytes(raw, val, pos, end) ==
    IF pos < end
    THEN get_whole_bytes(raw, Shl(val, 8) + raw[pos + 1], pos + 1, end)
    ELSE val

get_multibyte(raw, offset, bits) ==
    LET start      == offset \div 8
        end        == (offset + bits) \div 8
        end_bits   == (offset + bits) % 8
        shift      == 8 - end_bits
        start_mask == high0_mask(offset % 8)
        v1         == BitAnd(raw[start + 1], start_mask)
        v2         == get_whole_bytes(raw, v1, start + 1, end)
    IN  IF end_bits # 0
        THEN Shl(v2, end_bits) + Shr(raw[end + 1], shift)
        ELSE v2

bitfield_get(raw, offset, bits) ==
    IF offset \div 8 = (offset + bits) \div 8
    THEN get_simple(raw, offset, bits)
    ELSE get_multibyte(raw, offset, bits)

\* data with data[pos] = byte
SetByte(raw, pos, byte) == [raw EXCEPT ![pos + 1] = byte]

\* a & ~mask, and val & mask for a val of either sign, with mask in 0..255
ClearBits(a, mask) == a - BitAnd(a, mask)
LowBits(val, mask) == BitAnd(val % 256, mask)

\* lines 71-72
set_whole(raw, offset, bits, val) ==
    SetByte(raw, offset \div 8, LowBits(val, 255))

\* lines 74-76
set_masked(raw, offset, bits, val) ==
    LET start == offset \div 8
        shift == 8 - ((offset + bits) % 8)
        mask  == Shr(high1_mask(bits), offset % 8)
    IN  SetByte(raw, start,
                ClearBits(raw[start + 1], mask)
                + LowBits(val * Pow2(shift), mask))

\* lines 88-92: the whole bytes, from pos down to start + 1
RECURSIVE set_whole_bytes(_, _, _, _)
set_whole_bytes(raw, val, pos, start) ==
    IF pos > start
    THEN set_whole_bytes(SetByte(raw, pos, LowBits(val, 255)),
                         Shr(val, 8), pos - 1, start)
    ELSE [raw |-> raw, val |-> val]

\* set_multibyte that does not shift the low bits into place in the last byte
set_multibyte_low_end(raw, offset, bits, val) ==
    LET start      == offset \div 8
        end        == (offset + bits) \div 8
        end_bits   == (offset + bits) % 8
        shift      == 8 - end_bits
        start_mask == high0_mask(offset % 8)
        end_mask   == high1_mask(end_bits)
        end_shmask == Shr(high1_mask(end_bits), shift)
        raw1 == IF end_bits # 0
                THEN SetByte(raw, end,
                             ClearBits(raw[end + 1], end_mask)
                             + LowBits(val, end_shmask))
                ELSE raw
        val1 == IF end_bits # 0 THEN Shr(val, end_bits) ELSE val
        w    == set_whole_bytes(raw1, val1, end - 1, start)
    IN  SetByte(w.raw, start,
                ClearBits(w.raw[start + 1], start_mask)
                + LowBits(w.val, start_mask))

\* lines 78-96
set_multibyte(raw, offset, bits, val) ==
    LET start      == offset \div 8
        end        == (offset + bits) \div 8
        end_bits   == (offset + bits) % 8
        shift      == 8 - end_bits
        start_mask == high0_mask(offset % 8)
        end_mask   == high1_mask(end_bits)
        end_shmask == Shr(high1_mask(end_bits), shift)
        raw1 == IF end_bits # 0
                THEN SetByte(raw, end,
                             ClearBits(raw[end + 1], end_mask)
                             + Shl(LowBits(val, end_shmask), shift))
                ELSE raw
        val1 == IF end_bits # 0 THEN Shr(val, end_bits) ELSE val
        w    == set_whole_bytes(raw1, val1, end - 1, start)
    IN  SetByte(w.raw, start,
                ClearBits(w.raw[start + 1], start_mask)
                + LowBits(w.val, start_mask))

\* lines 101-108: the setter of make_property(name, offset, bits); no
\* branch of it raises
bitfield_set(raw, offset, bits, val) ==
    [ exc |-> "",
      raw |-> IF offset \div 8 = (offset + bits) \div 8
              THEN (IF bits = 8 THEN set_whole(raw, offset, bits, val)
                    ELSE set_masked(raw, offset, bits, val))
              ELSE set_multibyte(raw, offset, bits, val) ]

----------------------------------------------------------------------------
(* mp3frame/side_info.py *)

\* main_data_begin = make_property('raw_data', 0, 8 if lsf else 9)
main_data_begin(version_index, raw_si) ==
    bitfield_get(raw_si, 0, IF version_index # 3 THEN 8 ELSE 9)

\* part2_3_length is the first field (12 bits) of every granule
RECURSIVE sum_part2_3_length(_, _, _)
sum_part2_3_length(raw_si, offsets, i) ==
    IF i > Len(offsets) THEN 0
    ELSE bitfield_get(raw_si, offsets[i], 12)
         + sum_part2_3_length(raw_si, offsets, i + 1)

part2_3_bytes(version_index, channel_mode, raw_si) ==
    (sum_part2_3_length(raw_si,
        side_info_bit_offsets(version_index, channel_mode), 1) + 7) \div 8

part2_3_end(version_index, channel_mode, raw_si) ==
    part2_3_bytes(version_index, channel_mode, raw_si)
    - main_data_begin(version_index, raw_si)

\* _make_gran_class: the bits of a granule before blocksplit_flag are
\* part2_3_length 12, big_values 9, global_gain 8 and scalefac_compress
\* (9 if lsf else 4); the block data follows the flag
blocksplit_offset(version_index, offset) ==
    offset + 12 + 9 + 8 + (IF version_index # 3 THEN 9 ELSE 4)

blockdata_offset(version_index, offset) ==
    blocksplit_offset(version_index, offset) + 1

blocksplit_flag(raw, version_index, offset) ==
    bitfield_get(raw, blocksplit_offset(version_index, offset), 1)

\* _add_blockdata_fields, lines 146-151: props[flag] of the field, as
\* position, bits and count (count 0 for a field that is no tuple);
\* present is false where _make_bdprop got no property
NoProp == [present |-> FALSE, pos |-> 0, bits |-> 0, count |-> 0]
bf(pos, bits) == [present |-> TRUE, pos |-> pos, bits |-> bits, count |-> 0]
arr_prop(pos, bits, count) ==
    [present |-> TRUE, pos |-> pos, bits |-> bits, count |-> count]

blockdata_props(name, flag) ==
    CASE name = "table_select" ->
             IF flag = 0 THEN arr_prop(0, 5, 3) ELSE arr_prop(3, 5, 2)
      [] name = "region_address1" -> IF flag = 0 THEN bf(15, 4) ELSE NoProp
      [] name = "region_address2" -> IF flag = 0 THEN bf(19, 3) ELSE NoProp
      [] name = "block_type" -> IF flag = 0 THEN NoProp ELSE bf(0, 2)
      [] name = "switch_point" -> IF flag = 0 THEN NoProp ELSE bf(2, 1)
      [] name = "subblock_gain" -> IF flag = 0 THEN NoProp ELSE arr_prop(13, 3, 3)

\* what an access of a field gives: the bytes after it, and the value read
Access(exc, raw, val) == [exc |-> exc, raw |-> raw, val |-> val]

\* lines 102-105: side_info.py names the exception mp3bits.MP3UsageError,
\* and the module mp3bits has no attribute of that name
blockdata_err(raw) == Access("AttributeError", raw, 0)

\* lines 121-123
get_tuple(raw, offset, bits, count) ==
    LET val == bitfield_get(raw, offset, count * bits)
    IN  [i \in 1..count |-> Shr(val, bits * (count - i)) % Pow2(bits)]

\* lines 129-131
RECURSIVE pack_tuple(_, _, _, _)
pack_tuple(val, bits, i, num) ==
    IF i > Len(val) THEN num
    ELSE pack_tuple(val, bits, i + 1,
                    Shl(num, bits) + (val[i] % Pow2(bits)))

\* lines 125-132
set_tuple(raw, offset, bits, count, val) ==
    IF Len(val) # count THEN Access("ValueError", raw, 0)
    ELSE Access("",
                bitfield_set(raw, offset, count * bits,
                             pack_tuple(val, bits, 1, 0)).raw,
                0)

\* lines 92-95
get_blockdata_field(raw, version_index, offset, name) ==
    LET p  == blockdata_props(name, blocksplit_flag(raw, version_index, offset))
        at == blockdata_offset(version_index, offset) + p.pos
    IN  IF ~p.present THEN blockdata_err(raw)
        ELSE IF p.count = 0
        THEN Access("", raw, bitfield_get(raw, at, p.bits))
        ELSE Access("", raw, get_tuple(raw, at, p.bits, p.count))

\* lines 97-100
set_blockdata_field(raw, version_index, offset, name, val) ==
    LET p  == blockdata_props(name, blocksplit_flag(raw, version_index, offset))
        at == blockdata_offset(version_index, offset) + p.pos
    IN  IF ~p.present THEN blockdata_err(raw)
        ELSE IF p.count = 0
        THEN Access("", bitfield_set(raw, at, p.bits, val).raw, 0)
        ELSE set_tuple(raw, at, p.bits, p.count, val)

----------------------------------------------------------------------------
(* mp3frame/frames.py: FrameHeader *)

FrameHeader(d) ==
    [ raw_data         |-> Slice(d, 0, 4),
      version_index    |-> BitAnd(Shr(d[2], 3), 3),
      layer_index      |-> BitAnd(Shr(d[2], 1), 3),
      protection_bit   |-> BitAnd(d[2], 1),
      bitrate_index    |-> Shr(d[3], 4),
      samplerate_index |-> BitAnd(Shr(d[3], 2), 3),
      padded           |-> BitAnd(Shr(d[3], 1), 1),
      private          |-> BitAnd(d[3], 1),
      channel_mode     |-> Shr(d[4], 6),
      mode_extension   |-> BitAnd(Shr(d[4], 4), 3),
      copy_control     |-> BitAnd(Shr(d[4], 3), 1),
      original         |-> BitAnd(Shr(d[4], 2), 1),
      emphasis         |-> BitAnd(d[4], 3) ]

\* The derived attributes that sync.py reads from a FrameHeader
\* (head.frame_size, head.side_info_size, head.padding, head.sample_size)
\* and the exception hierarchy of the errors module.
head_frame_size(head) ==
    frame_size(head.version_index, head.layer_index, head.bitrate_index,
               head.samplerate_index, head.padded)

head_side_info_size(head) ==
    side_info_size(head.version_index, head.channel_mode)

head_padding(head) == head.padded

head_sample_size(head) == sample_size(head.layer_index).val

IsMP3DataError(e) == e \in {"MP3DataError", "MP3ReservedError"}

\* encode that leaves the private bit out of byte 2
header_encode_no_private(h) ==
    [ exc |-> "",
      head |-> [h EXCEPT !.raw_data =
          << 255,
             224 + Shl(h.version_index, 3) + Shl(h.layer_index, 1)
                 + h.protection_bit,
             Shl(h.bitrate_index, 4) + Shl(h.samplerate_index, 2)
                 + Shl(h.padded, 1),
             Shl(h.channel_mode, 6) + Shl(h.mode_extension, 4)
                 + Shl(h.copy_control, 3) + Shl(h.original, 2)
                 + h.emphasis >>] ]

\* FrameHeader.encode, lines 268-289: raw_data is written byte by byte, and
\* a field out of range raises ValueError before its byte is written
header_encode(h) ==
    LET d   == h.raw_data
        ok1 == /\ h.version_index \in 0..3
               /\ h.layer_index \in 0..3
               /\ h.protection_bit \in 0..1
        ok2 == /\ h.bitrate_index \in 0..15
               /\ h.samplerate_index \in 0..3
               /\ h.padded \in 0..1
               /\ h.private \in 0..1
        ok3 == /\ h.channel_mode \in 0..3
               /\ h.mode_extension \in 0..3
               /\ h.copy_control \in 0..1
               /\ h.original \in 0..1
               /\ h.emphasis \in 0..3
        d1  == 224 + Shl(h.version_index, 3) + Shl(h.layer_index, 1)
               + h.protection_bit
        d2  == Shl(h.bitrate_index, 4) + Shl(h.samplerate_index, 2)
               + Shl(h.padded, 1) + h.private
        d3  == Shl(h.channel_mode, 6) + Shl(h.mode_extension, 4)
               + Shl(h.copy_control, 3) + Shl(h.original, 2) + h.emphasis
    IN  IF ~ok1
        THEN [exc |-> "ValueError",
              head |-> [h EXCEPT !.raw_data = <<255, d[2], d[3], d[4]>>]]
        ELSE IF ~ok2
        THEN [exc |-> "ValueError",
              head |-> [h EXCEPT !.raw_data = <<255, d1, d[3], d[4]>>]]
        ELSE IF ~ok3
        THEN [exc |-> "ValueError",
              head |-> [h EXCEPT !.raw_data = <<255, d1, d2, d[4]>>]]
        ELSE [exc |-> "",
              head |-> [h EXCEPT !.raw_data = <<255, d1, d2, d3>>]]

\* FrameHeader(**kwargs), lines 223-232: the default header, then the fields
header_with(f) ==
    [ raw_data         |-> FrameHeader(<<255, 250, 96, 0>>).raw_data,
      version_index    |-> f.version_index,
      layer_index      |-> f.layer_index,
      protection_bit   |-> f.protection_bit,
      bitrate_index    |-> f.bitrate_index,
      samplerate_index |-> f.samplerate_index,
      padded           |-> f.padded,
      private          |-> f.private,
      channel_mode     |-> f.channel_mode,
      mode_extension   |-> f.mode_extension,
      copy_control     |-> f.copy_control,
      original         |-> f.original,
      emphasis         |-> f.emphasis ]

\* a ^ b on non-negative integers
RECURSIVE BitXor(_, _)
BitXor(a, b) ==
    IF a = 0 THEN b
    ELSE IF b = 0 THEN a
    ELSE ((a + b) % 2) + 2 * BitXor(a \div 2, b \div 2)

\* _crc_poly = 0x8005
crc_poly == 32773

\* crc16_bits, lines 384-402: the loop, from bit 'bits' - 1 down to bit 0
RECURSIVE crc16_bits(_, _, _)
crc16_bits(val, bits, start) ==
    IF bits > 0
    THEN Bind(IF BitXor(Shr(val, bits - 1) % 2, Shr(start, 15)) # 0
              THEN BitXor(Shl(start % 32768, 1), crc_poly)
              ELSE Shl(start % 32768, 1),
              LAMBDA crc : crc16_bits(val, bits - 1, crc))
    ELSE start

\* _crc_table[x], line 404
crc_table(x) == crc16_bits(x, 8, 0)

\* crc16 that takes the table entry of the low byte of the crc
RECURSIVE crc16_low_byte(_, _)
crc16_low_byte(d, start) ==
    IF d = <<>> THEN start
    ELSE Bind(BitXor(Shl(start % 256, 8),
                     crc_table(BitXor(start % 256, Head(d)))),
              LAMBDA crc : crc16_low_byte(Tail(d), crc))

\* crc16, lines 405-414
RECURSIVE crc16(_, _)
crc16(d, start) ==
    IF d = <<>> THEN start
    ELSE Bind(BitXor(Shl(start % 256, 8),
                     crc_table(BitXor(Shr(start, 8), Head(d)))),
              LAMBDA crc : crc16(Tail(d), crc))

\* MP3Frame.calc_crc, lines 109-114 and 133, for a layer 3 frame
calc_crc(fr) == crc16(fr.side_info, crc16(Slice(fr.header, 2, 4), 65535))

\* MP3Frame.encode(validate), lines 59-101, for a layer 3 frame
frame_encode(fr, validate) ==
    LET e     == header_encode(FrameHeader(fr.header))
        head  == e.head
        need_crc == head.protection_bit = 0
        sz    == frame_size(head.version_index, head.layer_index,
                            head.bitrate_index, head.samplerate_index,
                            head.padded)
        crc   == calc_crc([fr EXCEPT !.header = head.raw_data])
        d     == head.raw_data \o (IF need_crc THEN <<0, 0>> ELSE <<>>)
                 \o fr.side_info \o fr.raw_body
    IN  IF e.exc # "" THEN [exc |-> e.exc, data |-> <<>>]
        ELSE IF validate /\ Len(fr.side_info) #
                    side_info_size(head.version_index, head.channel_mode)
        THEN [exc |-> "MP3UsageError", data |-> <<>>]
        ELSE IF validate /\ part2_3_end(head.version_index, head.channel_mode,
                                        fr.side_info) > Len(fr.raw_body)
        THEN [exc |-> "MP3UsageError", data |-> <<>>]
        ELSE IF validate /\ sz.exc # "" THEN [exc |-> sz.exc, data |-> <<>>]
        ELSE IF validate /\ ~sz.none /\ sz.val # 0 /\ Len(d) # sz.val
        THEN [exc |-> "MP3UsageError", data |-> <<>>]
        ELSE IF need_crc
        THEN [exc |-> "",
              data |-> [d EXCEPT ![5] = Shr(crc, 8), ![6] = crc % 256]]
        ELSE [exc |-> "", data |-> d]

\* what get_body_at_offset and set_body_at_offset give: the frame after the
\* call and the bytes returned
BodyAt(exc, fr, val) == [exc |-> exc, fr |-> fr, val |-> val]

\* the last n bytes of raw (raw[-n:] with 0 < n <= len(raw))
Tail_n(raw, n) == From(raw, Len(raw) - n)

\* MP3Frame.get_body_at_offset(offset), lines 182-196
get_body_at_offset(fr, offset) ==
    IF offset >= 0
    THEN BodyAt("", fr, From(fr.raw_body, Min(offset, Len(fr.raw_body))))
    ELSE IF FrameHeader(fr.header).layer_index # 1
    THEN BodyAt("MP3UsageError", fr, <<>>)
    ELSE IF -offset > Len(fr.side_info)
    THEN BodyAt("MP3UsageError", fr, <<>>)
    ELSE BodyAt("", fr, Tail_n(fr.side_info, -offset) \o fr.raw_body)

\* MP3Frame.set_body_at_offset(offset, data), lines 198-214: a slice
\* assignment replaces the slice by the bytes given, however many they are
set_body_at_offset(fr, offset, d) ==
    IF offset >= 0
    THEN BodyAt("", [fr EXCEPT !.raw_body =
                         Slice(fr.raw_body, 0, Min(offset, Len(fr.raw_body)))
                         \o d],
                <<>>)
    ELSE IF FrameHeader(fr.header).layer_index # 1
    THEN BodyAt("MP3UsageError", fr, <<>>)
    ELSE IF -offset > Len(fr.side_info)
    THEN BodyAt("MP3UsageError", fr, <<>>)
    ELSE BodyAt("", [fr EXCEPT
                        !.side_info =
                            Slice(fr.side_info, 0, Len(fr.side_info) + offset)
                            \o Slice(d, 0, Min(-offset, Len(d))),
                        !.raw_body = From(d, Min(-offset, Len(d)))],
                <<>>)

----------------------------------------------------------------------------
(* mp3frame/mp3ext.py *)

\* _enc('ID3'), _enc('TAG'), ...
ID3         == <<73, 68, 51>>
TAG         == <<84, 65, 71>>
APETAGEX    == <<65, 80, 69, 84, 65, 71, 69, 88>>
LYRICSBEGIN == <<76, 89, 82, 73, 67, 83, 66, 69, 71, 73, 78>>
LYRICSEND   == <<76, 89, 82, 73, 67, 83, 69, 78, 68>>
LYRICS200   == <<76, 89, 82, 73, 67, 83, 50, 48, 48>>

\* _startswith(arr, prefix, arr_offset); the callers make sure that
\* arr_offset + len(prefix) <= len(arr)
startswith(arr, prefix, arr_offset) ==
    \A i \in 1..Len(prefix) : arr[arr_offset + i] = prefix[i]

id3v2_size(d) ==
    IF Len(d) >= 3 /\ ~startswith(d, ID3, 0) THEN 0
    ELSE IF Len(d) < 10 THEN -1
    ELSE IF d[4] = 255 \/ d[5] = 255 THEN 0
    ELSE IF \E i \in 7..10 : d[i] >= 128 THEN 0
    ELSE 10 + Shl(d[7], 21) + Shl(d[8], 14) + Shl(d[9], 7) + d[10]
         + (IF BitAnd(d[6], 64) # 0 THEN 10 ELSE 0)

\* id3v1_size that accepts any buffer of at least 128 bytes at EOF
id3v1_size_at_least(d, eof, offset) ==
    LET taglen == Len(d) - offset
    IN  IF taglen >= 3 /\ ~startswith(d, TAG, offset) THEN 0
        ELSE IF taglen >= 128 /\ eof THEN 128
        ELSE IF taglen < 128 /\ ~eof THEN -1
        ELSE 0

id3v1_size(d, eof, offset) ==
    LET taglen == Len(d) - offset
    IN  IF taglen >= 3 /\ ~startswith(d, TAG, offset) THEN 0
        ELSE IF taglen = 128 /\ eof THEN 128
        ELSE IF taglen < 128 /\ ~eof THEN -1
        ELSE 0

\* struct is not imported by mp3ext.py: line 116 raises NameError
apev2_size(d) ==
    IF Len(d) >= 8 /\ ~startswith(d, APETAGEX, 0) THEN Return(0)
    ELSE IF Len(d) < 16 THEN Return(-1)
    ELSE Raise("NameError")

\* _ucase(pos), _val(pos, len) of lyrics_field_info; -1 stands for None
lyrics_ucase(d, pos) == d[pos + 1] > 64 /\ d[pos + 1] <= 64 + 26

RECURSIVE lyrics_val(_, _, _, _)
lyrics_val(d, pos, n, acc) ==
    IF n = 0 THEN acc
    ELSE IF d[pos + 1] < 48 \/ d[pos + 1] > 57 THEN -1
    ELSE lyrics_val(d, pos + 1, n - 1, (acc * 10) + (d[pos + 1] - 48))

\* (name, size) or None: named is TRUE for a field, FALSE for the tag length
lyrics_field_info(d, offset) ==
    IF lyrics_ucase(d, offset) /\ lyrics_ucase(d, offset + 1)
       /\ lyrics_ucase(d, offset + 2)
    THEN [none  |-> lyrics_val(d, offset + 3, 5, 0) = -1,
          named |-> TRUE,
          size  |-> lyrics_val(d, offset + 3, 5, 0)]
    ELSE [none  |-> lyrics_val(d, offset, 6, 0) = -1,
          named |-> FALSE,
          size  |-> lyrics_val(d, offset, 6, 0)]

\* the while loop of lyrics3v2_size: the position after it, or -1 for
\* an early 'return 0'
RECURSIVE lyrics3v2_scan(_, _)
lyrics3v2_scan(d, pos) ==
    IF ~(pos + 8 < Len(d)) THEN pos
    ELSE IF pos >= 524288 THEN -1
    ELSE LET f == lyrics_field_info(d, pos)
         IN  IF f.none THEN -1
             ELSE IF ~f.named
                  THEN (IF pos # f.size THEN -1 ELSE pos + 6)
             ELSE lyrics3v2_scan(d, pos + f.size + 8)

lyrics3v2_size(d) ==
    IF Len(d) >= 11 /\ ~startswith(d, LYRICSBEGIN, 0) THEN 0
    ELSE LET pos == lyrics3v2_scan(d, 11)
         IN  IF pos = -1 THEN 0
             ELSE IF pos + 9 > Len(d) THEN -1
             ELSE IF startswith(d, LYRICS200, pos) THEN pos + 9
             ELSE 0

lyrics3v1_size(d, eof) ==
    LET taglen == Len(d)
        tagend == IF taglen >= 128 + 20
                     /\ id3v1_size(d, eof, Len(d) - 128) = 128
                  THEN taglen - 128 ELSE taglen
    IN  IF taglen >= 11 /\ ~startswith(d, LYRICSBEGIN, 0) THEN 0
        ELSE IF taglen > 5120 + 128 THEN 0
        ELSE IF ~eof THEN -1
        ELSE IF taglen < 20 THEN 0
        ELSE IF startswith(d, LYRICSEND, tagend - 9) THEN tagend
        ELSE 0

\* the first of a, b, ... that is not 0 ('a or b or ...')
FirstNonZero(s) ==
    IF \A i \in 1..Len(s) : s[i] = 0 THEN 0
    ELSE s[CHOOSE i \in 1..Len(s) :
                s[i] # 0 /\ \A j \in 1..(i - 1) : s[j] = 0]

\* (type, size); type "" stands for None
identify_tag(d, eof) ==
    LET v2   == id3v2_size(d)
        v1   == id3v1_size(d, eof, 0)
        ape  == apev2_size(d)
        lyr2 == lyrics3v2_size(d)
        lyr1 == lyrics3v1_size(d, eof)
    IN  IF v2 > 0 THEN [exc |-> "", type |-> "id3v2", size |-> v2]
        ELSE IF v1 > 0 THEN [exc |-> "", type |-> "id3v1", size |-> v1]
        ELSE IF ape.exc # "" THEN [exc |-> ape.exc, type |-> "", size |-> 0]
        ELSE IF ape.val > 0
             THEN [exc |-> "", type |-> "apev2", size |-> ape.val]
        ELSE IF lyr2 > 0
             THEN [exc |-> "", type |-> "lyrics3v2", size |-> lyr2]
        ELSE IF lyr1 > 0
             THEN [exc |-> "", type |-> "lyrics3v1", size |-> lyr1]
        ELSE IF eof THEN [exc |-> "", type |-> "", size |-> 0]
        ELSE [exc |-> "", type |-> "",
              size |-> FirstNonZero(<<v2, v1, ape.val, lyr2, lyr1>>)]

----------------------------------------------------------------------------
(* mp3frame/sync.py: BaseSync *)

\* the object's fields, as a record the methods below take and give back
Self == [ data            |-> data,
          bytes_returned  |-> bytes_returned,
          read_eof        |-> read_eof,
          sync_skip       |-> sync_skip,
          synced          |-> synced,
          frames_returned |-> frames_returned,
          base_framesize  |-> base_framesize ]

\* sync_header = sync_mask = 0xffe0 << 16
sync_header == <<255, 224, 0, 0>>
sync_mask   == <<255, 224, 0, 0>>

\* done = read_eof and not len(data)
done(s) == s.read_eof /\ Len(s.data) = 0

\* (head & mask) == header, on the four bytes at pos
is_sync(d, pos, header, mask) ==
    \A i \in 1..4 : BitAnd(d[pos + i], mask[i]) = header[i]

\* fromfile(file, bytes): array.fromfile appends what it could read and
\* raises EOFError when the file held fewer than 'bytes' bytes
fromfile(s, f, bytes) ==
    IF s.read_eof
    THEN [self |-> s, file |-> f, exc |-> "MP3UsageError"]
    ELSE [self |-> [s EXCEPT !.data = s.data \o Slice(f, 0, bytes),
                             !.read_eof = Len(f) < bytes],
          file |-> From(f, Min(bytes, Len(f))),
          exc  |-> ""]

\* dsub.index(255) + offset, or -1 for ValueError
index255(d, offset) ==
    LET found == { p \in offset..(Len(d) - 1) : d[p + 1] = 255 }
    IN  IF found = {} THEN -1
        ELSE CHOOSE p \in found : \A q \in found : p <= q

\* the loop of resync: skip is self.sync_skip
RECURSIVE resync_loop(_, _, _, _, _)
resync_loop(d, skip, offset, header, mask) ==
    LET pos == index255(d, offset)
    IN  IF pos = -1 THEN [sync_skip |-> Len(d), rv |-> -1]
        ELSE IF pos + 4 > Len(d) THEN [sync_skip |-> skip + pos, rv |-> -1]
        ELSE IF is_sync(d, pos, header, mask)
             THEN [sync_skip |-> skip + pos, rv |-> skip + pos]
        ELSE resync_loop(d, skip + pos + 1, skip + pos + 1, header, mask)

resync(s, offset, header, mask) ==
    Bind(resync_loop(s.data, s.sync_skip, Max(offset, s.sync_skip),
                     header, mask),
         LAMBDA r : [self |-> [s EXCEPT !.sync_skip = r.sync_skip],
                     rv   |-> r.rv])

\* identify(): kind is "None", "sync", "garbage" or "tag"
Ident(s, kind, size, type) ==
    [self |-> s, exc |-> "", kind |-> kind, size |-> size, type |-> type]

identify(s) ==
    IF Len(s.data) < 4
    THEN (IF s.read_eof /\ Len(s.data) > 0
          THEN Ident(s, "garbage", Len(s.data), "")
          ELSE Ident(s, "None", 0, ""))
    ELSE IF is_sync(s.data, 0, sync_header, sync_mask)
    THEN Ident(s, "sync", 0, "")
    ELSE Bind(identify_tag(s.data, s.read_eof), LAMBDA tag :
        IF tag.exc # ""
        THEN [Ident(s, "None", 0, "") EXCEPT !.exc = tag.exc]
        ELSE IF tag.size > 0 THEN Ident(s, "tag", tag.size, tag.type)
        ELSE IF tag.size = -1 THEN Ident(s, "None", 0, "")
        ELSE Bind(resync(s, 0, sync_header, sync_mask), LAMBDA r :
            IF r.rv > 0 THEN Ident(r.self, "garbage", r.rv, "")
            ELSE IF r.self.sync_skip > 0
            THEN Ident(r.self, "garbage", r.self.sync_skip, "")
            ELSE Ident(r.self, "None", 0, "")))

\* advance(bytes) without the decrement of sync_skip
advance_keep_skip(s, bytes) ==
    IF bytes > Len(s.data) \/ bytes < 0
    THEN [self |-> s, exc |-> "MP3UsageError"]
    ELSE [self |-> [s EXCEPT !.bytes_returned = s.bytes_returned + bytes,
                             !.data = From(s.data, bytes)],
          exc  |-> ""]

advance(s, bytes) ==
    IF bytes > Len(s.data) \/ bytes < 0
    THEN [self |-> s, exc |-> "MP3UsageError"]
    ELSE [self |-> [s EXCEPT !.bytes_returned = s.bytes_returned + bytes,
                             !.data = From(s.data, bytes),
                             !.sync_skip = Max(0, s.sync_skip - bytes)],
          exc  |-> ""]

----------------------------------------------------------------------------
(* mp3frame/sync.py: PhysicalFrameSync *)

\* What readitem returns: ('frame', MP3Frame), ('tag', CommentTag) or
\* ('garbage', array).  One record shape serves the three kinds: raw_data is
\* the tag's or the garbage's bytes; header, crc16 (the two CRC bytes),
\* side_info, raw_body, resynced, frame_number and byte_position are the
\* MP3Frame's fields.
NoItem ==
    [ kind |-> "None", tag_type |-> "", raw_data |-> <<>>, header |-> <<>>,
      crc16 |-> <<>>, side_info |-> <<>>, raw_body |-> <<>>,
      resynced |-> FALSE, frame_number |-> 0, byte_position |-> 0 ]

CommentTag(type, d) ==
    [NoItem EXCEPT !.kind = "tag", !.tag_type = type, !.raw_data = d]

Garbage(d) == [NoItem EXCEPT !.kind = "garbage", !.raw_data = d]

MP3Frame(head, crc, raw_si, body, resynced, number, position) ==
    [NoItem EXCEPT !.kind = "frame", !.header = head.raw_data, !.crc16 = crc,
                   !.side_info = raw_si, !.raw_body = body,
                   !.resynced = resynced, !.frame_number = number,
                   !.byte_position = position]

\* what _create_frame gives: code is "frame", "resync" or "moredata"
Created(s, exc, code, fr) ==
    [self |-> s, exc |-> exc, code |-> code, fr |-> fr]

\* free_format_size without 'self.sync_skip = 0' before 'resync'
free_format_size_keep_skip(s, head, headsz, sidesz, raw_si) ==
    LET d      == s.data
        offset == headsz + sidesz
                  + (IF sidesz # 0
                     THEN Max(0, part2_3_end(head.version_index,
                                             head.channel_mode, raw_si))
                     ELSE 0)
        pad    == IF head_padding(head) # 0 THEN head_sample_size(head) ELSE 0
    IN  Bind(resync(s, offset, <<255, d[2], d[3], 0>>, <<255, 255, 252, 0>>),
             LAMBDA r :
        LET s1    == r.self
            tagsz == id3v1_size(Last(d, 128), TRUE, 0)
            sz    == IF r.rv # -1 THEN r.rv
                     ELSE IF Len(d) > 128 /\ tagsz > 0 THEN Len(d) - tagsz
                     ELSE Len(d)
        IN  IF r.rv = -1 /\ Len(d) >= 8192
            THEN [self |-> s1, exc |-> "",
                  code |-> "resync", sz |-> 0]
            ELSE IF r.rv = -1 /\ ~s.read_eof
            THEN [self |-> s1, exc |-> "", code |-> "moredata", sz |-> 0]
            ELSE IF ~(sz >= offset)
            THEN [self |-> s1, exc |-> "AssertionError", code |-> "",
                  sz |-> sz]
            ELSE [self |-> IF s1.base_framesize < 0
                           THEN [s1 EXCEPT !.base_framesize = sz - pad]
                           ELSE s1,
                  exc |-> "", code |-> "", sz |-> sz])

\* lines 288-327: the size of a free-format frame of unknown size.
\* code "" means that the size was found and _create_frame goes on.
free_format_size(s, head, headsz, sidesz, raw_si) ==
    LET d      == s.data
        offset == headsz + sidesz
                  + (IF sidesz # 0
                     THEN Max(0, part2_3_end(head.version_index,
                                             head.channel_mode, raw_si))
                     ELSE 0)
        pad    == IF head_padding(head) # 0 THEN head_sample_size(head) ELSE 0
    IN  Bind(resync(s, offset, <<255, d[2], d[3], 0>>, <<255, 255, 252, 0>>),
             LAMBDA r :
        LET s1    == r.self
            tagsz == id3v1_size(Last(d, 128), TRUE, 0)
            sz    == IF r.rv # -1 THEN r.rv
                     ELSE IF Len(d) > 128 /\ tagsz > 0 THEN Len(d) - tagsz
                     ELSE Len(d)
        IN  IF r.rv = -1 /\ Len(d) >= 8192
            THEN [self |-> [s1 EXCEPT !.sync_skip = 0], exc |-> "",
                  code |-> "resync", sz |-> 0]
            ELSE IF r.rv = -1 /\ ~s.read_eof
            THEN [self |-> s1, exc |-> "", code |-> "moredata", sz |-> 0]
            ELSE IF ~(sz >= offset)
            THEN [self |-> s1, exc |-> "AssertionError", code |-> "",
                  sz |-> sz]
            ELSE [self |-> IF s1.base_framesize < 0
                           THEN [s1 EXCEPT !.base_framesize = sz - pad]
                           ELSE s1,
                  exc |-> "", code |-> "", sz |-> sz])

\* make_frame with resynced = False
make_frame_not_resynced(s, head, headsz, sidesz, raw_si, sz) ==
    LET d  == s.data
        fr == MP3Frame(head,
                       IF head.protection_bit = 0 THEN <<d[5], d[6]>> ELSE <<>>,
                       raw_si,
                       Slice(d, headsz + sidesz, sz),
                       FALSE, s.frames_returned, s.bytes_returned)
        a  == advance(s, sz)
    IN  IF ~(sz > 0) THEN Created(s, "AssertionError", "", NoItem)
        ELSE IF Len(d) < sz THEN Created(s, "", "moredata", NoItem)
        ELSE IF a.exc # "" THEN Created(s, a.exc, "", NoItem)
        ELSE Created([a.self EXCEPT
                          !.frames_returned = s.frames_returned + 1,
                          !.synced = TRUE],
                     "", "frame", fr)

\* lines 329-353: the frame of sz bytes at the start of the buffer
make_frame(s, head, headsz, sidesz, raw_si, sz) ==
    LET d  == s.data
        fr == MP3Frame(head,
                       IF head.protection_bit = 0 THEN <<d[5], d[6]>> ELSE <<>>,
                       raw_si,
                       Slice(d, headsz + sidesz, sz),
                       ~s.synced, s.frames_returned, s.bytes_returned)
        a  == advance(s, sz)
    IN  IF ~(sz > 0) THEN Created(s, "AssertionError", "", NoItem)
        ELSE IF Len(d) < sz THEN Created(s, "", "moredata", NoItem)
        ELSE IF a.exc # "" THEN Created(s, a.exc, "", NoItem)
        ELSE Created([a.self EXCEPT
                          !.frames_returned = s.frames_returned + 1,
                          !.synced = TRUE],
                     "", "frame", fr)

\* lines 269-353; sz = 0 stands for a frame_size of None ('not sz')
create_frame_body(s, head, headsz, sidesz, sz) ==
    LET d      == s.data
        raw_si == IF sidesz # 0 THEN Slice(d, headsz, headsz + sidesz)
                  ELSE <<>>
        pad    == IF head_padding(head) # 0 THEN head_sample_size(head) ELSE 0
        sz1    == IF sz = 0 /\ s.base_framesize # 0
                  THEN s.base_framesize + pad
                  ELSE sz
    IN  IF sz1 # 0
        THEN make_frame(s, head, headsz, sidesz, raw_si, sz1)
        ELSE Bind(free_format_size(s, head, headsz, sidesz, raw_si),
                  LAMBDA ff :
                      IF ff.exc # "" \/ ff.code # ""
                      THEN Created(ff.self, ff.exc, ff.code, NoItem)
                      ELSE make_frame(ff.self, head, headsz, sidesz, raw_si,
                                      ff.sz))

create_frame(s) ==
    Bind(FrameHeader(s.data), LAMBDA head :
    Bind(head_frame_size(head), LAMBDA szr :
        LET d      == s.data
            headsz == IF head.protection_bit = 0 THEN 6 ELSE 4
            sz     == IF szr.none THEN 0 ELSE szr.val
            sidesz == IF head.layer_index = 1 THEN head_side_info_size(head)
                      ELSE 0
        IN  IF szr.exc # ""
            THEN (IF IsMP3DataError(szr.exc)
                  THEN Created(s, "", "resync", NoItem)
                  ELSE Created(s, szr.exc, "", NoItem))
            ELSE IF Len(d) < (IF sz # 0 THEN sz ELSE headsz + sidesz)
            THEN Created(s, "", "moredata", NoItem)
            ELSE create_frame_body(s, head, headsz, sidesz, sz)))

\* what readitem gives: kind "None" stands for None
Read(s, exc, item) ==
    [self |-> s, exc |-> exc, kind |-> item.kind, item |-> item]

\* read_other without the test 'len(d) < size'
read_other_no_wait(s, id) ==
    LET d  == s.data
        s1 == [id.self EXCEPT !.synced = (id.kind # "garbage")]
        a  == advance(s1, id.size)
    IN  IF a.exc # "" THEN Read(s1, a.exc, NoItem)
        ELSE IF id.kind = "tag"
        THEN Read(a.self, "", CommentTag(id.type, Slice(d, 0, id.size)))
        ELSE Read(a.self, "", Garbage(Slice(d, 0, id.size)))

\* lines 207-222: a tag or garbage
read_other(s, id) ==
    LET d  == s.data
        s1 == [id.self EXCEPT !.synced = (id.kind # "garbage")]
        a  == advance(s1, id.size)
    IN  IF Len(d) < id.size THEN Read(s1, "", NoItem)
        ELSE IF a.exc # "" THEN Read(s1, a.exc, NoItem)
        ELSE IF id.kind = "tag"
        THEN Read(a.self, "", CommentTag(id.type, Slice(d, 0, id.size)))
        ELSE Read(a.self, "", Garbage(Slice(d, 0, id.size)))

\* read_frame without the test 'not self.read_eof' for 'moredata'
read_frame_eof_untested(s, id) ==
    Bind(create_frame(id.self), LAMBDA cf :
        LET d    == s.data
            size == IF cf.code = "moredata" THEN Len(d) ELSE 1
            a    == advance([cf.self EXCEPT !.synced = FALSE], size)
        IN  IF cf.exc # "" THEN Read(cf.self, cf.exc, NoItem)
            ELSE IF cf.code = "frame" THEN Read(cf.self, "", cf.fr)
            ELSE IF a.exc # ""
            THEN Read([cf.self EXCEPT !.synced = FALSE], a.exc, NoItem)
            ELSE Read(a.self, "", Garbage(Slice(d, 0, size))))

\* lines 224-242: a frame, or the garbage an error code stands for
read_frame(s, id) ==
    Bind(create_frame(id.self), LAMBDA cf :
        LET d    == s.data
            size == IF cf.code = "moredata" THEN Len(d) ELSE 1
            a    == advance([cf.self EXCEPT !.synced = FALSE], size)
        IN  IF cf.exc # "" THEN Read(cf.self, cf.exc, NoItem)
            ELSE IF cf.code = "frame" THEN Read(cf.self, "", cf.fr)
            ELSE IF cf.code = "moredata" /\ ~s.read_eof
            THEN Read(cf.self, "", NoItem)
            ELSE IF a.exc # ""
            THEN Read([cf.self EXCEPT !.synced = FALSE], a.exc, NoItem)
            ELSE Read(a.self, "", Garbage(Slice(d, 0, size))))

readitem(s) ==
    IF Len(s.data) < 4 THEN Read(s, "", NoItem)
    ELSE Bind(identify(s), LAMBDA id :
        IF id.exc # "" THEN Read(id.self, id.exc, NoItem)
        ELSE IF id.kind = "None" THEN Read(id.self, "", NoItem)
        ELSE IF id.kind # "sync" THEN read_other(s, id)
        ELSE read_frame(s, id))

----------------------------------------------------------------------------
(* mp3frame/sync.py: FileSyncWrapper *)

\* max_buffer = 4*1024*1024
max_buffer == 4 * 1024 * 1024

WrapRead(r, f) ==
    [self |-> r.self, file |-> f, exc |-> r.exc, kind |-> r.kind,
     item |-> r.item]

\* FileSyncWrapper.readitem: the file is read 4096 bytes at a time
\* (the default of fromfile)
RECURSIVE wrapper_readitem(_, _)
wrapper_readitem(s, f) ==
    IF done(s) THEN WrapRead(Read(s, "", NoItem), f)
    ELSE Bind(readitem(s), LAMBDA r :
        IF r.exc # "" \/ r.kind # "None" THEN WrapRead(r, f)
        ELSE IF Len(r.self.data) >= max_buffer
        THEN WrapRead(Read(r.self, "MP3ImplementationLimit", NoItem), f)
        ELSE Bind(fromfile(r.self, f, 4096), LAMBDA ff :
            IF ff.exc # ""
            THEN WrapRead(Read(ff.self, ff.exc, NoItem), ff.file)
            ELSE wrapper_readitem(ff.self, ff.file)))

----------------------------------------------------------------------------
(* mp3frame/sync.py: LogicalFrameAssembler, LogicalFrameSync *)

\* the assembler's fields
Asm == [ reservoir         |-> reservoir,
         last_end          |-> last_end,
         ancillary_skipped |-> ancillary_skipped ]

\* what frame_in gives: the assembler, and the byte array or None
FrameIn(a, none, d) == [self |-> a, exc |-> "", none |-> none, val |-> d]

\* main_data that takes the first 'begin' bytes of the reservoir
main_data_from_start(res, raw_body, begin, main_len) ==
    LET end == main_len - begin
    IN  IF begin > Len(res) THEN ReturnNone
        ELSE IF end > Len(raw_body) THEN ReturnNone
        ELSE IF end < 0 THEN Return(Slice(res, 0, main_len))
        ELSE IF begin > 0
        THEN Return(Slice(res, 0, begin) \o Slice(raw_body, 0, end))
        ELSE Return(Slice(raw_body, 0, end))

\* lines 456-471: the frame's main data, or None
main_data(res, raw_body, begin, main_len) ==
    LET end == main_len - begin
    IN  IF begin > Len(res) THEN ReturnNone
        ELSE IF end > Len(raw_body) THEN ReturnNone
        ELSE IF end < 0
        THEN Return(Slice(res, Len(res) - begin, Len(res) + end))
        ELSE IF begin > 0
        THEN Return(Last(res, begin) \o Slice(raw_body, 0, end))
        ELSE Return(Slice(raw_body, 0, end))

\* store that keeps the last body only
store_last_body(res, raw_body) == raw_body

\* store that keeps 510 bytes less the body when it cuts the reservoir
store_keep_510(res, raw_body) ==
    IF Len(raw_body) >= 511 \/ res = <<>> THEN raw_body
    ELSE IF Len(res) + Len(raw_body) > 4096
    THEN Last(res, Max(1, 510 - Len(raw_body))) \o raw_body
    ELSE res \o raw_body

\* lines 474-480: the reservoir after the frame's body is stored
store(res, raw_body) ==
    IF Len(raw_body) >= 511 \/ res = <<>> THEN raw_body
    ELSE IF Len(res) + Len(raw_body) > 4096
    THEN Last(res, Max(1, 511 - Len(raw_body))) \o raw_body
    ELSE res \o raw_body

\* lines 452-490: a layer 3 frame
frame_in_layer3(a, head, fr) ==
    LET raw_body == fr.raw_body
        unused   == Len(a.reservoir) - a.last_end
        begin    == main_data_begin(head.version_index, fr.side_info)
        main_len == part2_3_bytes(head.version_index, head.channel_mode,
                                  fr.side_info)
        dt       == main_data(a.reservoir, raw_body, begin, main_len)
        a1       == [a EXCEPT !.ancillary_skipped = unused - begin,
                              !.reservoir = store(a.reservoir, raw_body)]
    IN  IF dt.none
        THEN FrameIn([a1 EXCEPT !.last_end = a.last_end - Len(raw_body)],
                     TRUE, <<>>)
        ELSE IF Len(dt.val) # main_len
        THEN [FrameIn(a1, TRUE, <<>>) EXCEPT !.exc = "AssertionError"]
        ELSE FrameIn([a1 EXCEPT !.last_end =
                          Len(raw_body)
                          - (Len(dt.val) - (main_len - begin))],
                     FALSE, dt.val)

\* lines 434-490
frame_in(a, fr) ==
    LET head   == FrameHeader(fr.header)
        unused == Len(a.reservoir) - a.last_end
    IN  IF head.layer_index # 1
        THEN FrameIn(IF unused # 0
                     THEN [reservoir |-> <<>>, last_end |-> 0,
                           ancillary_skipped |-> unused]
                     ELSE [a EXCEPT !.ancillary_skipped = unused],
                     FALSE, fr.raw_body)
        ELSE frame_in_layer3(a, head, fr)

\* an MP3Frame with the two fields that LogicalFrameSync.readitem sets;
\* logical_none says that logical_body is None
LogicalFrame(fr, none, body, skipped) ==
    [ kind |-> fr.kind, tag_type |-> fr.tag_type, raw_data |-> fr.raw_data,
      header |-> fr.header, crc16 |-> fr.crc16, side_info |-> fr.side_info,
      raw_body |-> fr.raw_body, resynced |-> fr.resynced,
      frame_number |-> fr.frame_number, byte_position |-> fr.byte_position,
      logical_none |-> none, logical_body |-> body,
      ancillary_skipped |-> skipped ]

\* LogicalFrameSync.readitem, lines 500-508: asm is the assembler after it
logical_readitem(s, a) ==
    Bind(readitem(s), LAMBDA rv :
        IF rv.exc # "" \/ rv.kind # "frame"
        THEN [self |-> rv.self, asm |-> a, exc |-> rv.exc, kind |-> rv.kind,
              item |-> rv.item]
        ELSE Bind(frame_in(a, rv.item), LAMBDA fi :
            [self |-> rv.self, asm |-> fi.self, exc |-> fi.exc,
             kind |-> IF fi.exc # "" THEN "None" ELSE "frame",
             item |-> IF fi.exc # "" THEN NoItem
                      ELSE LogicalFrame(rv.item, fi.none, fi.val,
                                        fi.self.ancillary_skipped)]))

----------------------------------------------------------------------------
(* The files read *)

\* the largest number of segments a file is made of
MaxSegs == 2

\* MPEG-2 layer 3, 8 kbps, 24000 Hz, mono, no CRC: 24 bytes
\* (4 header, 9 side info, 11 body)
SegFrame == <<255, 243, 20, 192>> \o Zeros(9) \o <<1, 2, 3, 4, 5, 6, 7, 8, 9, 10, 11>>

\* the first 10 bytes of such a frame
SegTruncated == <<255, 243, 20, 192>> \o Zeros(6)

\* MPEG-1 layer 1, 32 kbps, 48000 Hz, CRC: frame_size gives 8 bytes
SegLayer1 == <<255, 254, 20, 0, 170, 187, 12, 13>>

\* free format (bitrate_index 0), MPEG-2 layer 3, 24000 Hz, mono:
\* 16 bytes unpadded, 17 bytes padded
SegFree == <<255, 243, 4, 192>> \o Zeros(9) \o <<21, 22, 23>>
SegFreePadded == <<255, 243, 6, 192>> \o Zeros(9) \o <<31, 32, 33, 34>>

\* free format, MPEG-1 layer 1, 44100 Hz, padded: the header alone
SegL1FreePadded == <<255, 255, 2, 0>>

\* sync headers with reserved fields, one after the other: version_index 1,
\* layer_index 0, bitrate_index 15, samplerate_index 3
SegReserved == <<255, 235, 20, 192>> \o <<255, 241, 20, 192>>
               \o <<255, 243, 244, 192>> \o <<255, 243, 28, 192>>

\* a free-format header (bitrate_index 0) with samplerate_index 3, padded,
\* MPEG-2 layer 3, mono, and 9 + 1 bytes
SegResFreeRate == <<255, 243, 14, 192>> \o Zeros(9) \o <<41>>

\* bytes that are no tag and hold no syncword, without and with 0xFF
SegNoise   == <<0, 1, 2>>
SegNoiseFF == <<255, 0, 65>>

\* an ID3v2 tag of 10 + 2 bytes; an ID3v2 header that announces 40 bytes
SegID3v2    == ID3 \o <<3, 0, 0, 0, 0, 0, 2, 97, 98>>
SegID3v2Big == ID3 \o <<3, 0, 0, 0, 0, 0, 40>>

\* an ID3v1 tag: 'TAG' and 125 bytes
SegID3v1 == TAG \o Zeros(125)

Segments ==
    { SegFrame, SegTruncated, SegLayer1, SegFree, SegFreePadded,
      SegL1FreePadded, SegReserved, SegResFreeRate, SegNoise, SegNoiseFF,
      SegID3v2 }

RECURSIVE Flatten(_)
Flatten(ss) == IF ss = <<>> THEN <<>> ELSE Head(ss) \o Flatten(Tail(ss))

\* files of up to MaxSegs segments
Streams == { Flatten(ss) : ss \in UNION { [1..n -> Segments] : n \in 1..MaxSegs } }

\* files that end with an ID3v1 tag, which follows audio or an ID3v2 tag
Tagged == { s \o SegID3v1 :
              s \in { <<>>, SegFrame, SegLayer1, SegFree, SegID3v2 } }

Inputs == Streams \cup Tagged

\* the 'bytes' argument of fromfile: one byte, or the default
FeedSizes == {1, 4096}

----------------------------------------------------------------------------
(* The state machine *)

Outcome(op, exc, kind, size) ==
    [op |-> op, exc |-> exc, kind |-> kind, size |-> size]

\* the size in bytes of what an item holds
ItemBytes(it) ==
    IF it.kind = "frame"
    THEN it.header \o it.crc16 \o it.side_info \o it.raw_body
    ELSE it.raw_data

\* BaseSync.__init__, PhysicalFrameSync.__init__, on one of the files
InitOn(files) ==
    /\ input \in files
    /\ file = input
    /\ data = <<>>
    /\ bytes_returned = 0
    /\ read_eof = FALSE
    /\ sync_skip = 0
    /\ synced = TRUE
    /\ frames_returned = 0
    /\ base_framesize = -1
    /\ out = <<>>
    /\ ret = Outcome("init", "", "None", 0)
    /\ reservoir = <<>>
    /\ last_end = 0
    /\ ancillary_skipped = 0
    /\ args = <<>>

Init == InitOn(Inputs)

SetSelf(s) ==
    /\ data' = s.data
    /\ bytes_returned' = s.bytes_returned
    /\ read_eof' = s.read_eof
    /\ sync_skip' = s.sync_skip
    /\ synced' = s.synced
    /\ frames_returned' = s.frames_returned
    /\ base_framesize' = s.base_framesize

\* sync.fromfile(file, n)
Fromfile(n) ==
    \E r \in {fromfile(Self, file, n)} :
        /\ SetSelf(r.self)
        /\ file' = r.file
        /\ ret' = Outcome("fromfile", r.exc, "None", 0)
        /\ UNCHANGED <<input, out, others>>

\* sync.readitem() on a PhysicalFrameSync
Readitem ==
    \E r \in {readitem(Self)} :
        /\ SetSelf(r.self)
        /\ out' = IF r.kind # "None" THEN Append(out, r.item) ELSE out
        /\ ret' = Outcome("readitem", r.exc, r.kind, Len(ItemBytes(r.item)))
        /\ UNCHANGED <<input, file, others>>

Next ==
    \/ \E n \in FeedSizes : Fromfile(n)
    \/ Readitem

\* a PhysicalFrameSync that its caller feeds and reads
Spec == Init /\ [][Next]_vars

----------------------------------------------------------------------------
(* FileSyncWrapper(PhysicalFrameSync(), file) *)

WrapperInputs == Inputs \cup {SegID3v2Big, SegID3v2Big \o SegFrame}

InitWrapper == InitOn(WrapperInputs)

\* wrapper.readitem(), the step of items()
WrapperReaditem ==
    \E r \in {wrapper_readitem(Self, file)} :
        /\ SetSelf(r.self)
        /\ file' = r.file
        /\ out' = IF r.kind # "None" THEN Append(out, r.item) ELSE out
        /\ ret' = Outcome("wrapper_readitem", r.exc, r.kind,
                          Len(ItemBytes(r.item)))
        /\ UNCHANGED <<input, others>>

NextWrapper == WrapperReaditem

SpecWrapper == InitWrapper /\ [][NextWrapper]_vars

----------------------------------------------------------------------------
(* BaseSync on its own: fromfile, identify, advance *)

\* the largest 'bytes' argument of advance
MaxAdvance == 3

AdvanceSizes == (-1)..MaxAdvance

BaseInputs ==
    { SegNoise \o SegFrame, SegNoiseFF \o SegFrame, SegID3v2 \o SegNoise,
      SegNoiseFF \o SegNoiseFF \o SegLayer1, TAG \o Zeros(2) }

InitBase == InitOn(BaseInputs)

\* sync.identify()
Identify ==
    \E r \in {identify(Self)} :
        /\ SetSelf(r.self)
        /\ ret' = Outcome("identify", r.exc, r.kind, r.size)
        /\ UNCHANGED <<input, file, out, others>>

\* sync.advance(n)
Advance(n) ==
    \E r \in {advance(Self, n)} :
        /\ SetSelf(r.self)
        /\ ret' = Outcome("advance", r.exc, "None", n)
        /\ UNCHANGED <<input, file, out, others>>

NextBase ==
    \/ \E n \in FeedSizes : Fromfile(n)
    \/ Identify
    \/ \E n \in AdvanceSizes : Advance(n)

SpecBase == InitBase /\ [][NextBase]_vars

----------------------------------------------------------------------------
(* BaseSync.identify on files that start with 'TAG' *)

\* 'TAG' with 2, 125, 126 and 127 bytes after it (5, 128, 129 and 130
\* bytes), and an ID3v2 tag before an ID3v1 tag
TagInputs ==
    { TAG \o Zeros(2), SegID3v1, TAG \o Zeros(126), TAG \o Zeros(127),
      SegID3v2 \o SegID3v1 }

InitTag == InitOn(TagInputs)

NextTag ==
    \/ \E n \in FeedSizes : Fromfile(n)
    \/ Identify

SpecTag == InitTag /\ [][NextTag]_vars

----------------------------------------------------------------------------
(* LogicalFrameSync: streams of whole frames *)

\* the largest number of frames of a stream
MaxFrames == 3

\* the 11 bytes of a small frame's body, which differ from frame to frame
Body(tag) == [i \in 1..11 |-> 16 * tag + i]

\* the bytes of a body of n bytes
LongBody(tag, n) == [i \in 1..n |-> (7 * i + tag) % 256]

\* MPEG-2 mono layer 3 side info: main_data_begin in byte 0, the only
\* granule's part2_3_length (8 * main_len bits) in bits 9..20
SideInfo(begin, main_len) ==
    <<begin, (8 * main_len) \div 32, ((8 * main_len) % 32) * 8>> \o Zeros(6)

\* a 24-byte frame like SegFrame with main_data_begin = begin and
\* part2_3_bytes = main_len
L3(begin, main_len, tag) ==
    <<255, 243, 20, 192>> \o SideInfo(begin, main_len) \o Body(tag)

\* MPEG-2 layer 3, 16000 Hz, mono, of 160 kbps (720 bytes, body 707) and of
\* 96 kbps (432 bytes, body 419)
L3Big(begin, main_len, tag) ==
    <<255, 243, 232, 192>> \o SideInfo(begin, main_len) \o LongBody(tag, 707)

L3Mid(begin, main_len, tag) ==
    <<255, 243, 168, 192>> \o SideInfo(begin, main_len) \o LongBody(tag, 419)

\* MPEG-1 layer 2, 32 kbps, 48000 Hz: 96 bytes
SegLayer2 == <<255, 253, 20, 0>> \o LongBody(3, 92)

\* frames whose main data follows the previous frame's, frames that reach
\* back further than the reservoir or past their body, and layer 1 and 2
FrameMenu ==
    { L3(0, 11, 1), L3(0, 5, 2), L3(6, 10, 3), L3(6, 3, 4), L3(6, 17, 5),
      L3(6, 18, 6), L3(12, 5, 7), L3(0, 12, 8), L3(7, 7, 9), L3(14, 20, 10),
      SegLayer1, SegLayer2 }

FrameStreams ==
    { Flatten(ss) : ss \in UNION { [1..n -> FrameMenu] : n \in 1..MaxFrames } }

\* ten frames with bodies of 419 bytes, which fill the reservoir beyond 4096
\* bytes, and an eleventh that reaches back into it; frames with bodies of
\* more than 511 bytes
LongStreams ==
    { Flatten([i \in 1..9 |-> L3Mid(0, 419, i)]) \o L3Mid(0, 400, 10)
          \o L3Mid(19, 430, 11),
      L3Big(0, 500, 1) \o L3Big(207, 511, 2) \o L3Big(255, 300, 3),
      L3Big(0, 707, 1) \o SegLayer2 \o L3Big(100, 200, 2) }

LogicalInputs == FrameStreams \cup LongStreams

InitLogical == InitOn(LogicalInputs)

SetAsm(a) ==
    /\ reservoir' = a.reservoir
    /\ last_end' = a.last_end
    /\ ancillary_skipped' = a.ancillary_skipped

\* sync.readitem() on a LogicalFrameSync
LogicalReaditem ==
    \E r \in {logical_readitem(Self, Asm)} :
        /\ SetSelf(r.self)
        /\ SetAsm(r.asm)
        /\ out' = IF r.kind # "None" THEN Append(out, r.item) ELSE out
        /\ ret' = Outcome("logical_readitem", r.exc, r.kind,
                          Len(ItemBytes(r.item)))
        /\ UNCHANGED <<input, file, args>>

NextLogical ==
    \/ Fromfile(4096)
    \/ LogicalReaditem

\* a LogicalFrameSync that its caller feeds and reads
SpecLogical == InitLogical /\ [][NextLogical]_vars

----------------------------------------------------------------------------
(* Calls of the functions of mp3bits, bitfields, side_info and frames: the  *)
(* arguments are in args, and ret is what the call returned.                *)

Result(op, exc, val) == [op |-> op, exc |-> exc, val |-> val]

\* no object is made; one call is chosen
InitCall(calls) ==
    /\ args \in calls
    /\ input = <<>>
    /\ file = <<>>
    /\ data = <<>>
    /\ bytes_returned = 0
    /\ read_eof = FALSE
    /\ sync_skip = 0
    /\ synced = TRUE
    /\ frames_returned = 0
    /\ base_framesize = -1
    /\ out = <<>>
    /\ ret = Result("init", "", 0)
    /\ reservoir = <<>>
    /\ last_end = 0
    /\ ancillary_skipped = 0

\* the call returns r
Returns(r) ==
    /\ ret' = r
    /\ UNCHANGED <<input, file, data, bytes_returned, read_eof, sync_skip,
                   synced, frames_returned, base_framesize, out, others>>

----------------------------------------------------------------------------
(* bitfields.make_property: writing a field of a byte array *)

\* the byte array of the module's self-test, and three others
FieldRaws ==
    { <<175, 131, 153, 153, 153, 153>>, Zeros(6), [i \in 1..6 |-> 255],
      <<1, 35, 69, 103, 137, 171>> }

\* <<offset, bits>>: the three fields of the self-test; fields inside one
\* byte, fields that end on a byte boundary, whole bytes, and fields that
\* span two to five bytes
Fields ==
    { <<0, 3>>, <<3, 11>>, <<14, 32>>,
      <<0, 1>>, <<7, 1>>, <<2, 5>>, <<9, 3>>,
      <<5, 3>>, <<4, 12>>, <<0, 8>>, <<8, 8>>, <<0, 32>>, <<16, 32>>,
      <<9, 12>>, <<20, 9>>, <<6, 20>>, <<1, 31>> }

\* the largest value of the field that is written
TopVal(bits) == IF bits >= 31 THEN 2147483647 ELSE Pow2(bits) - 1

InRange(val, bits) == val >= 0 /\ (bits >= 31 \/ val < Pow2(bits))

\* values of the field, the self-test's among them, and values below and
\* above its range
FieldVals(bits) ==
    { v \in {0, 1, 5, 7, 123, 2047, 349525, 591951381} : InRange(v, bits) }
    \cup {TopVal(bits), TopVal(bits) \div 2, TopVal(bits) - 1}
    \cup (IF bits < 31
          THEN {-1, -2, Pow2(bits), Pow2(bits) + 1, 2 * Pow2(bits) - 1}
          ELSE {-1, -2})

FieldCalls ==
    UNION { { [raw |-> r, offset |-> f[1], bits |-> f[2], val |-> v] :
                  r \in FieldRaws, v \in FieldVals(f[2]) } : f \in Fields }

InitField == InitCall(FieldCalls)

\* q.field = val
SetField ==
    \E r \in {bitfield_set(args.raw, args.offset, args.bits, args.val)} :
        Returns(Result("set", r.exc, r.raw))

NextField == SetField

SpecField == InitField /\ [][NextField]_vars

----------------------------------------------------------------------------
(* side_info: the fields of a granule that depend on blocksplit_flag *)

\* <<version_index, channel_mode>> of the four side-info classes
Variants == { <<3, 0>>, <<3, 3>>, <<2, 0>>, <<2, 3>> }

\* side info of all zero bits, of all one bits, and of mixed bits
SideInfoRaws(n) ==
    { Zeros(n), [i \in 1..n |-> 255], [i \in 1..n |-> (37 * i + 11) % 256] }

\* the same bytes with the granule's blocksplit_flag cleared and set
WithFlag(raw, version_index, offset) ==
    { bitfield_set(raw, blocksplit_offset(version_index, offset), 1, f).raw :
          f \in {0, 1} }

BlockFields ==
    { "table_select", "region_address1", "region_address2", "block_type",
      "switch_point", "subblock_gain" }

TupleFields == {"table_select", "subblock_gain"}

\* values written: tuples of two and of three entries for the fields that
\* are tuples; for the others a number, kept here as a tuple of one entry
BlockVals(name) ==
    IF name \in TupleFields
    THEN { <<1, 2, 3>>, <<31, 0, 17>>, <<7, 5, 6>>, <<21, 10>>, <<0, 31>> }
    ELSE { <<0>>, <<1>>, <<5>> }

GranuleCalls ==
    UNION { UNION { UNION {
        { [op |-> "get", raw |-> r, version_index |-> v[1],
           channel_mode |-> v[2], offset |-> o, field |-> f, val |-> <<>>] :
              f \in BlockFields }
        \cup
        UNION { { [op |-> "set", raw |-> r, version_index |-> v[1],
                   channel_mode |-> v[2], offset |-> o, field |-> f,
                   val |-> x] : x \in BlockVals(f) } : f \in BlockFields }
        : r \in UNION { WithFlag(w, v[1], o) :
                          w \in SideInfoRaws(side_info_size(v[1], v[2])) } }
        : o \in { side_info_bit_offsets(v[1], v[2])[i] :
                    i \in 1..Len(side_info_bit_offsets(v[1], v[2])) } }
        : v \in Variants }

InitGranule == InitCall(GranuleCalls)

\* gran.field
GetBlockdata ==
    /\ args.op = "get"
    /\ \E r \in {get_blockdata_field(args.raw, args.version_index,
                                     args.offset, args.field)} :
           Returns(Result("get", r.exc, [raw |-> r.raw, val |-> r.val]))

\* gran.field = val
SetBlockdata ==
    /\ args.op = "set"
    /\ \E r \in {set_blockdata_field(args.raw, args.version_index,
                                     args.offset, args.field,
                                     IF args.field \in TupleFields
                                     THEN args.val ELSE args.val[1])} :
           Returns(Result("set", r.exc, [raw |-> r.raw, val |-> r.val]))

NextGranule ==
    \/ GetBlockdata
    \/ SetBlockdata

SpecGranule == InitGranule /\ [][NextGranule]_vars

----------------------------------------------------------------------------
(* frames.FrameHeader: decoding and encoding the four header bytes *)

\* the fields of a FrameHeader
FieldsOf(h) ==
    [ version_index    |-> h.version_index,
      layer_index      |-> h.layer_index,
      protection_bit   |-> h.protection_bit,
      bitrate_index    |-> h.bitrate_index,
      samplerate_index |-> h.samplerate_index,
      padded           |-> h.padded,
      private          |-> h.private,
      channel_mode     |-> h.channel_mode,
      mode_extension   |-> h.mode_extension,
      copy_control     |-> h.copy_control,
      original         |-> h.original,
      emphasis         |-> h.emphasis ]

\* values of one byte: all 0, all 1, and two mixed patterns
SomeBytes == {0, 255, 165, 90}

\* headers whose top 11 bits are 1: every value of one byte, with some
\* values of the two others (each byte is decoded and encoded on its own)
SyncHeaders ==
    { <<255, b1, b2, b3>> :
          b1 \in 224..255, b2 \in SomeBytes, b3 \in SomeBytes }
    \cup { <<255, 224 + (b1 % 32), b2, b3>> :
               b1 \in SomeBytes, b2 \in 0..255, b3 \in SomeBytes }
    \cup { <<255, 224 + (b1 % 32), b2, b3>> :
               b1 \in SomeBytes, b2 \in SomeBytes, b3 \in 0..255 }

\* the fields of byte 1, of byte 2 and of byte 3, each within its range
Fields1 ==
    [version_index : 0..3, layer_index : 0..3, protection_bit : 0..1]
Fields2 ==
    [bitrate_index : 0..15, samplerate_index : 0..3, padded : 0..1, private : 0..1]
Fields3 ==
    [channel_mode : 0..3, mode_extension : 0..3, copy_control : 0..1, original : 0..1, emphasis : 0..3]

Some1 ==
    { f \in Fields1 : f.version_index = f.layer_index /\ f.protection_bit = f.version_index % 2 }
Some2 ==
    { f \in Fields2 : /\ f.bitrate_index \in {0, 9, 15}
                      /\ f.samplerate_index = f.bitrate_index % 4
                      /\ f.padded = f.private
                      /\ f.padded = f.bitrate_index % 2 }
Some3 ==
    { f \in Fields3 : /\ f.channel_mode = f.emphasis
                      /\ f.mode_extension = 3 - f.channel_mode
                      /\ f.copy_control = f.original
                      /\ f.original = f.channel_mode % 2 }

HeaderFields(f1, f2, f3) ==
    [ version_index    |-> f1.version_index,
      layer_index      |-> f1.layer_index,
      protection_bit   |-> f1.protection_bit,
      bitrate_index    |-> f2.bitrate_index,
      samplerate_index |-> f2.samplerate_index,
      padded           |-> f2.padded,
      private          |-> f2.private,
      channel_mode     |-> f3.channel_mode,
      mode_extension   |-> f3.mode_extension,
      copy_control     |-> f3.copy_control,
      original         |-> f3.original,
      emphasis         |-> f3.emphasis ]

\* every value of the fields of one byte, with some of the two others
FieldChoices ==
    { HeaderFields(f1, f2, f3) : f1 \in Fields1, f2 \in Some2, f3 \in Some3 }
    \cup { HeaderFields(f1, f2, f3) : f1 \in Some1, f2 \in Fields2, f3 \in Some3 }
    \cup { HeaderFields(f1, f2, f3) : f1 \in Some1, f2 \in Some2, f3 \in Fields3 }

HeaderCalls ==
    { [op |-> "decode", raw |-> d, fields |-> <<>>] : d \in SyncHeaders }
    \cup { [op |-> "encode", raw |-> <<>>, fields |-> f] : f \in FieldChoices }

InitHeader == InitCall(HeaderCalls)

\* h = FrameHeader(raw); h.encode(); h.raw_data
DecodeEncode ==
    /\ args.op = "decode"
    /\ \E e \in {header_encode(FrameHeader(args.raw))} :
           Returns(Result("decode_encode", e.exc, e.head.raw_data))

\* h = FrameHeader(**fields); h.encode(); FrameHeader(h.raw_data)
EncodeDecode ==
    /\ args.op = "encode"
    /\ \E e \in {header_encode(header_with(args.fields))} :
           Returns(Result("encode_decode", e.exc,
                          FieldsOf(FrameHeader(e.head.raw_data))))

NextHeader ==
    \/ DecodeEncode
    \/ EncodeDecode

SpecHeader == InitHeader /\ [][NextHeader]_vars

----------------------------------------------------------------------------
(* mp3bits: frame_size and min_bitrate_index *)

\* every setting of the header fields that frame_size reads
FrameSizeCalls ==
    { [op |-> "frame_size", version_index |-> v, layer_index |-> l,
       bitrate_index |-> b, samplerate_index |-> s, padding |-> p, bytes |-> 0] :
          v \in 0..3, l \in 0..3, b \in 0..15, s \in 0..3, p \in 0..1 }

\* sizes asked for: none, small ones, sizes next to the frame sizes 8, 24,
\* 104, 417, 676 and 1728, and sizes that no bitrate gives
BytesAsked ==
    { 0, 1, 8, 9, 24, 25, 26, 32, 33, 36, 37, 104, 105, 106, 417, 418, 419,
      676, 677, 1728, 1729, 1730, 5000 }

\* versions and layers that are not reserved
MinBitrateCalls ==
    { [op |-> "min_bitrate_index", version_index |-> v, layer_index |-> l,
       bitrate_index |-> 0, samplerate_index |-> s, padding |-> 0, bytes |-> n] :
          v \in {0, 2, 3}, l \in 1..3, s \in 0..3, n \in BytesAsked }

InitBits == InitCall(FrameSizeCalls \cup MinBitrateCalls)

\* mp3bits.frame_size(...)
FrameSize ==
    /\ args.op = "frame_size"
    /\ \E r \in {frame_size(args.version_index, args.layer_index,
                            args.bitrate_index, args.samplerate_index,
                            args.padding)} :
           Returns(Result("frame_size", r.exc, [none |-> r.none, val |-> r.val]))

\* mp3bits.min_bitrate_index(...)
MinBitrateIndex ==
    /\ args.op = "min_bitrate_index"
    /\ \E r \in {min_bitrate_index(args.version_index, args.layer_index,
                                   args.samplerate_index, args.bytes)} :
           Returns(Result("min_bitrate_index", r.exc,
                          [none |-> r.none, val |-> r.val]))

NextBits ==
    \/ FrameSize
    \/ MinBitrateIndex

SpecBits == InitBits /\ [][NextBits]_vars

----------------------------------------------------------------------------
(* frames: crc16, and MP3Frame.encode on layer 3 frames *)

\* start values: every high byte and every low byte, with some values of
\* the other byte
CrcStarts ==
    { 256 * h + l : h \in 0..255, l \in SomeBytes }
    \cup { 256 * h + l : h \in SomeBytes, l \in 0..255 }

\* '123456789'
CheckString == <<49, 50, 51, 52, 53, 54, 55, 56, 57>>

\* byte sequences of up to three bytes, and the check string
CrcData ==
    UNION { [1..n -> SomeBytes] : n \in 0..3 } \cup {CheckString}

CrcCalls ==
    { [op |-> "crc16", d |-> <<b>>, start |-> s, fr |-> NoItem,
        validate |-> FALSE] :
          b \in 0..255, s \in {0, 65535, 32773, 4660} }
    \cup { [op |-> "crc16", d |-> <<b>>, start |-> s, fr |-> NoItem,
        validate |-> FALSE] :
               b \in SomeBytes, s \in CrcStarts }
    \cup { [op |-> "crc16", d |-> d, start |-> s, fr |-> NoItem,
        validate |-> FALSE] :
               d \in CrcData, s \in {0, 65535, 32773, 4660} }

\* the header, side info and body of an MP3Frame
FrameOf(head, raw_si, body) ==
    [NoItem EXCEPT !.kind = "frame", !.header = head, !.side_info = raw_si,
                   !.raw_body = body,
                   !.crc16 = IF BitAnd(head[2], 1) = 0 THEN <<0, 0>> ELSE <<>>]

\* layer 3 frames: MPEG-2 mono with a CRC (24 bytes), MPEG-1 stereo with a
\* CRC (96 bytes), MPEG-2 mono without a CRC, and frames whose side info or
\* body has the wrong length
CrcFrames ==
    { FrameOf(<<255, 242, 20, 192>>, si, [i \in 1..9 |-> 16 + i]) :
          si \in { Zeros(9), SideInfo(0, 5), <<3, 0, 24, 1, 2, 3, 4, 5, 6>> } }
    \cup { FrameOf(<<255, 250, 20, 0>>, si, LongBody(5, 58)) :
               si \in { Zeros(32), Zeros(4) \o <<1, 2, 3, 4>> \o Zeros(24) } }
    \cup { FrameOf(<<255, 243, 20, 192>>, Zeros(9), Body(1)),
           FrameOf(<<255, 242, 20, 192>>, Zeros(8), Body(1)),
           FrameOf(<<255, 242, 20, 192>>, SideInfo(0, 12), Body(1)),
           FrameOf(<<255, 242, 20, 192>>, Zeros(9), Body(1)) }

EncodeCalls ==
    { [op |-> "encode", d |-> <<>>, start |-> 0, fr |-> fr, validate |-> v] :
          fr \in CrcFrames, v \in BOOLEAN }

InitCrc == InitCall(CrcCalls \cup EncodeCalls)

\* frames.crc16(d, start)
Crc16 ==
    /\ args.op = "crc16"
    /\ Returns(Result("crc16", "", crc16(args.d, args.start)))

\* frame.encode(validate)
FrameEncode ==
    /\ args.op = "encode"
    /\ \E r \in {frame_encode(args.fr, args.validate)} :
           Returns(Result("frame_encode", r.exc, r.data))

NextCrc ==
    \/ Crc16
    \/ FrameEncode

SpecCrc == InitCrc /\ [][NextCrc]_vars

----------------------------------------------------------------------------
(* frames: MP3Frame.get_body_at_offset and set_body_at_offset *)

\* a layer 3 frame (side info of 9 bytes, body of 3 bytes) and a layer 1
\* frame (no side info, body of 4 bytes)
BodyFrames ==
    { FrameOf(<<255, 243, 20, 192>>, [i \in 1..9 |-> 100 + i], <<21, 22, 23>>),
      FrameOf(<<255, 255, 20, 0>>, <<>>, <<170, 187, 12, 13>>) }

BodyOffsets == (-11)..6

\* the data written: 0, 1, 3, 9, 12 and 14 bytes
BodyData == { [i \in 1..n |-> 200 + i] : n \in {0, 1, 3, 9, 12, 14} }

BodyCalls ==
    { [op |-> "get", fr |-> fr, offset |-> o, d |-> <<>>] :
          fr \in BodyFrames, o \in BodyOffsets }
    \cup { [op |-> "set", fr |-> fr, offset |-> o, d |-> d] :
               fr \in BodyFrames, o \in BodyOffsets, d \in BodyData }

InitBody == InitCall(BodyCalls)

\* frame.get_body_at_offset(offset)
GetBody ==
    /\ args.op = "get"
    /\ \E r \in {get_body_at_offset(args.fr, args.offset)} :
           Returns(Result("get_body_at_offset", r.exc, [fr |-> r.fr, d |-> r.val]))

\* frame.set_body_at_offset(offset, data)
SetBody ==
    /\ args.op = "set"
    /\ \E r \in {set_body_at_offset(args.fr, args.offset, args.d)} :
           Returns(Result("set_body_at_offset", r.exc, [fr |-> r.fr, d |-> r.val]))

NextBody ==
    \/ GetBody
    \/ SetBody

SpecBody == InitBody /\ [][NextBody]_vars

----------------------------------------------------------------------------
(* PhysicalFrameSync with every method of BaseSync called by hand *)

\* noise with 0xFF bytes before a frame, and noise without
SyncInputs ==
    { SegNoiseFF \o SegLayer1, SegNoiseFF \o SegNoiseFF \o SegL1FreePadded,
      SegNoise \o SegLayer1 }

\* the offsets given to resync
ResyncOffsets == {0, 2}

\* the header and mask given to resync: the defaults, and those of the
\* search for a free-format header like SegL1FreePadded's
ResyncMasks ==
    { [header |-> sync_header, mask |-> sync_mask],
      [header |-> <<255, 255, 0, 0>>, mask |-> <<255, 255, 252, 0>>] }

\* the 'bytes' arguments of fromfile and of advance
SyncFeeds == {5, 4096}
SyncAdvances == {-1, 2}

InitSync == InitOn(SyncInputs)

\* sync.resync(offset, header, mask); args keeps the arguments and the
\* sync_skip the call began with
Resync(offset, hm) ==
    \E r \in {resync(Self, offset, hm.header, hm.mask)} :
        /\ SetSelf(r.self)
        /\ ret' = Outcome("resync", "", "None", r.rv)
        /\ args' = [offset |-> offset, header |-> hm.header, mask |-> hm.mask,
                    sync_skip |-> sync_skip]
        /\ UNCHANGED <<input, file, out, reservoir, last_end,
                       ancillary_skipped>>

NextSync ==
    \/ \E n \in SyncFeeds : Fromfile(n)
    \/ Identify
    \/ \E offset \in ResyncOffsets, hm \in ResyncMasks : Resync(offset, hm)
    \/ Readitem
    \/ \E n \in SyncAdvances : Advance(n)

SpecSync == InitSync /\ [][NextSync]_vars

----------------------------------------------------------------------------
(* PhysicalFrameSync with base_framesize = 0: free-format frames are sized  *)
(* by the search for the next header                                        *)

\* a free-format frame, MPEG-2 layer 3, 24000 Hz, mono, no CRC: byte 2 is
\* 4, plus 2 when padded, plus 1 with the private bit; part2_3_length gives
\* main_len bytes of main data
Free(byte2, main_len, body) ==
    <<255, 243, byte2, 192>> \o SideInfo(0, main_len) \o body

FreeBytes == {4, 5, 6, 7}

\* two free-format frames with each padded and private bit; a frame whose
\* main data holds a header like its own; a frame with a 0xFF byte after
\* its main data; a frame followed by a frame of another bitrate
FreeInputs ==
    { Free(a, 0, <<51, 52, 53>>) \o Free(b, 0, <<61, 62>>) :
          a \in FreeBytes, b \in FreeBytes }
    \cup { Free(4, 5, <<255, 243, 4, 192, 9, 71>>) \o Free(4, 0, <<72>>),
           Free(4, 0, <<255, 0, 81>>) \o Free(4, 0, <<82>>),
           Free(4, 0, <<91, 92>>) \o SegFrame }

\* PhysicalFrameSync.__init__, then base_framesize = 0
InitNoCache ==
    /\ input \in FreeInputs
    /\ file = input
    /\ data = <<>>
    /\ bytes_returned = 0
    /\ read_eof = FALSE
    /\ sync_skip = 0
    /\ synced = TRUE
    /\ frames_returned = 0
    /\ base_framesize = 0
    /\ out = <<>>
    /\ ret = Outcome("init", "", "None", 0)
    /\ reservoir = <<>>
    /\ last_end = 0
    /\ ancillary_skipped = 0
    /\ args = <<>>

NextNoCache ==
    \/ \E n \in FeedSizes : Fromfile(n)
    \/ Readitem

SpecNoCache == InitNoCache /\ [][NextNoCache]_vars

----------------------------------------------------------------------------
(* PhysicalFrameSync on free-format headers that no header follows *)

\* a free-format header (MPEG-2 layer 3, 24000 Hz, mono; byte 2 is 4, or 6
\* when padded) and zero bytes, n bytes in all
Lone(byte2, n) == <<255, 243, byte2, 192>> \o Zeros(n - 4)

\* a free-format header of MPEG-1 layer 1 whose last byte is 'T', then 'AG'
\* and 125 zero bytes: 131 bytes that end with an ID3v1 tag
LoneTagged == <<255, 255, 0, 84, 65, 71>> \o Zeros(125)

\* files of 8191, 8192 and 8200 bytes and short files; a frame of another
\* bitrate, an ID3v1 tag or a header like the first one at the end
LoneInputs ==
    { Lone(4, 8191), Lone(4, 8192), Lone(6, 8192), Lone(6, 8200),
      Lone(4, 8193) \o SegFrame, Lone(4, 40), Lone(6, 40) \o SegFrame,
      Lone(4, 200) \o SegID3v1, Lone(6, 50) \o SegID3v1,
      Lone(4, 30) \o Lone(5, 20), LoneTagged }

\* the 'bytes' argument of fromfile
LoneFeeds == {1500, 4096}

\* PhysicalFrameSync.__init__, then base_framesize left at -1 or set to 0
InitLone ==
    /\ input \in LoneInputs
    /\ file = input
    /\ data = <<>>
    /\ bytes_returned = 0
    /\ read_eof = FALSE
    /\ sync_skip = 0
    /\ synced = TRUE
    /\ frames_returned = 0
    /\ base_framesize \in {-1, 0}
    /\ out = <<>>
    /\ ret = Outcome("init", "", "None", 0)
    /\ reservoir = <<>>
    /\ last_end = 0
    /\ ancillary_skipped = 0
    /\ args = <<>>

NextLone ==
    \/ \E n \in LoneFeeds : Fromfile(n)
    \/ Readitem

SpecLone == InitLone /\ [][NextLone]_vars

----------------------------------------------------------------------------
(* What the items returned so far hold.  A formula about one call is a      *)
(* formula about a step: the unprimed variables are the object before the   *)
(* call, the primed ones the object after it, and ret' is what it returned. *)

\* the bytes of the items, in the order of their return
Emitted(items) == Flatten([i \in 1..Len(items) |-> ItemBytes(items[i])])

\* the number of bytes of the first k items
RECURSIVE SumBytes(_, _)
SumBytes(items, k) ==
    IF k = 0 THEN 0
    ELSE Len(ItemBytes(items[k])) + SumBytes(items, k - 1)

\* the last item returned
LastItem == out[Len(out)]

\* the step is a call of readitem on a buffer that starts with a syncword
ReaditemOnSync ==
    /\ ret'.op = "readitem"
    /\ Len(data) >= 4
    /\ is_sync(data, 0, sync_header, sync_mask)

\* the frame size the header at the start of d gives
HeaderSize(d) == head_frame_size(FrameHeader(d))

\* a frame of known size starts at position n of d and is complete
ValidFrameAt(d, n) ==
    /\ n + 4 <= Len(d)
    /\ is_sync(d, n, sync_header, sync_mask)
    /\ HeaderSize(From(d, n)).exc = ""
    /\ ~HeaderSize(From(d, n)).none
    /\ n + HeaderSize(From(d, n)).val <= Len(d)

----------------------------------------------------------------------------
(* C1 *)

\* C1: once EOF is signalled and readitem has nothing more to return, the
\* bytes of the items returned, in order, are the bytes of the file.
C1_AllBytesEmitted ==
    (ret.op = "readitem" /\ read_eof /\ ret.exc = "" /\ ret.kind = "None")
        => Emitted(out) = input

----------------------------------------------------------------------------
(* C2 *)

\* C2: no call of FileSyncWrapper.readitem raises, and a call that returns
\* None leaves the sync done (EOF read, buffer empty).
C2_ItemsTerminate ==
    ret.op = "wrapper_readitem"
        => (ret.exc = "" /\ (ret.kind = "None" => done(Self)))

----------------------------------------------------------------------------
(* C3 *)

\* the buffer d starts with n >= 1 bytes that hold no syncword and are no
\* tag, and a complete frame of known size follows them
NoiseBeforeFrame(d, eof, n) ==
    /\ n >= 1
    /\ ValidFrameAt(d, n)
    /\ \A q \in 0..(n - 1) : ~is_sync(d, q, sync_header, sync_mask)
    /\ identify_tag(d, eof).exc = ""
    /\ identify_tag(d, eof).size = 0

C3_Step ==
    /\ \A n \in 1..Len(data) :
        (ret'.op = "readitem" /\ NoiseBeforeFrame(data, read_eof, n))
            => /\ ret'.exc = ""
               /\ ret'.kind = "garbage"
               /\ LastItem'.raw_data = Slice(data, 0, n)
    /\ (ret'.op = "readitem" /\ ret'.kind = "frame" /\ out # <<>>
        /\ LastItem.kind = "garbage")
            => LastItem'.resynced

\* C3: readitem on n bytes of noise before a complete frame returns one
\* Garbage item of exactly those n bytes, and the Frame returned right after
\* a Garbage item has resynced = true.
C3_GarbageEndsAtFrame == [][C3_Step]_vars

----------------------------------------------------------------------------
(* C4 *)

\* where the search for the end of the free-format frame at the start of d
\* begins: after the header, the CRC, the side info and part2_3_end
FreeSearchStart(d) ==
    LET head   == FrameHeader(d)
        headsz == IF head.protection_bit = 0 THEN 6 ELSE 4
        sidesz == IF head.layer_index = 1 THEN head_side_info_size(head)
                  ELSE 0
    IN  IF sidesz = 0 THEN headsz
        ELSE IF Len(d) < headsz + sidesz THEN Len(d)
        ELSE headsz + sidesz
             + Max(0, part2_3_end(head.version_index, head.channel_mode,
                                  Slice(d, headsz, headsz + sidesz)))

\* the positions of d, from the start of the search on, of the headers that
\* equal the header at the start of d under the mask 0xFFFFFC00
SameHeaderAt(d) ==
    { p \in FreeSearchStart(d)..(Len(d) - 4) :
        /\ d[p + 1] = 255
        /\ d[p + 2] = d[2]
        /\ BitAnd(d[p + 3], 252) = BitAnd(d[3], 252) }

\* the buffer d starts with a free-format header that is not reserved
FreeFormatAt(d) ==
    /\ Len(d) >= 4
    /\ is_sync(d, 0, sync_header, sync_mask)
    /\ HeaderSize(d).exc = ""
    /\ HeaderSize(d).none
    /\ samplerate(FrameHeader(d).version_index,
                  FrameHeader(d).samplerate_index).exc = ""

\* the padding of the frame at the start of d, in bytes
PaddingBytes(d) ==
    IF FrameHeader(d).padded # 0
    THEN sample_size(FrameHeader(d).layer_index).val ELSE 0

C4_Step ==
    /\ (ReaditemOnSync /\ FreeFormatAt(data) /\ base_framesize = -1
        /\ SameHeaderAt(data) # {})
          => \E p \in SameHeaderAt(data) :
                /\ \A q \in SameHeaderAt(data) : p <= q
                /\ ret'.exc = ""
                /\ ret'.kind = "frame"
                /\ ret'.size = p
                /\ base_framesize' = p - PaddingBytes(data)
    /\ (ReaditemOnSync /\ FreeFormatAt(data) /\ base_framesize > 0
        /\ Len(data) >= base_framesize + PaddingBytes(data))
          => /\ ret'.exc = ""
             /\ ret'.kind = "frame"
             /\ ret'.size = base_framesize + PaddingBytes(data)
             /\ base_framesize' = base_framesize

\* C4: with base_framesize = -1, readitem on a free-format frame that is
\* followed by a header equal to its own under 0xFFFFFC00 returns the Frame
\* that ends at that header and sets base_framesize to its size less its
\* padding; with base_framesize > 0, readitem on a free-format frame returns
\* a Frame of base_framesize bytes plus its padding.
C4_FreeFormatSize == [][C4_Step]_vars

----------------------------------------------------------------------------
(* C5 *)

\* a header with a reserved field
ReservedHeader(head) ==
    \/ head.version_index = 1
    \/ head.layer_index = 0
    \/ head.bitrate_index = 15
    \/ head.samplerate_index = 3

C5_Step ==
    (ReaditemOnSync /\ ReservedHeader(FrameHeader(data)))
        => /\ ret'.exc = ""
           /\ ret'.kind = "garbage"
           /\ ret'.size = 1
           /\ ~synced'

\* C5: readitem on a buffer that starts with a sync header with a reserved
\* field returns a Garbage item of one byte, without an error, and leaves
\* synced = false.
C5_ReservedIsGarbage == [][C5_Step]_vars

----------------------------------------------------------------------------
(* C6 *)

\* C6: the Frames returned are numbered 0, 1, 2, ...; the byte_position of each
\* is the number of bytes of all items returned before it, and is larger
\* than the byte_position of every earlier Frame.
C6_FrameNumbering ==
    \A i \in 1..Len(out) :
        out[i].kind = "frame"
            => /\ out[i].frame_number
                    = Cardinality({ j \in 1..(i - 1) : out[j].kind = "frame" })
               /\ out[i].byte_position = SumBytes(out, i - 1)
               /\ \A j \in 1..(i - 1) :
                    out[j].kind = "frame"
                        => out[j].byte_position < out[i].byte_position

----------------------------------------------------------------------------
(* C7 *)

\* the buffer d starts with a sync header of known frame size, and holds
\* fewer bytes than that size
TruncatedFrame(d) ==
    /\ Len(d) >= 4
    /\ is_sync(d, 0, sync_header, sync_mask)
    /\ HeaderSize(d).exc = ""
    /\ ~HeaderSize(d).none
    /\ Len(d) < HeaderSize(d).val

C7_Step ==
    (ret'.op = "readitem" /\ TruncatedFrame(data))
        => /\ ret'.exc = ""
           /\ ret'.kind # "frame"
           /\ ~read_eof
                => /\ ret'.kind = "None"
                   /\ out' = out
                   /\ data' = data
                   /\ bytes_returned' = bytes_returned
                   /\ frames_returned' = frames_returned
           /\ read_eof
                => /\ ret'.kind = "garbage"
                   /\ out' = Append(out, LastItem')
                   /\ LastItem'.raw_data = data
                   /\ data' = <<>>
                   /\ bytes_returned' = bytes_returned + Len(data)
                   /\ frames_returned' = frames_returned
                   /\ ~synced'

\* C7: readitem on a truncated frame of known size returns None and changes
\* neither the buffer nor bytes_returned nor frames_returned before EOF; after
\* EOF it returns the whole buffer as one Garbage item and leaves synced =
\* false.  It never returns a Frame.
C7_TruncatedFrame == [][C7_Step]_vars

\* C7's case: EOF was signalled on a truncated frame, and readitem returned
\* its bytes as Garbage
C7_Witness ==
    /\ ret.op = "readitem"
    /\ ret.kind = "garbage"
    /\ read_eof
    /\ data = <<>>
    /\ ~synced
    /\ TruncatedFrame(LastItem.raw_data)

----------------------------------------------------------------------------
(* C8 *)

C8_Step ==
    /\ (ret'.op = "readitem" /\ Len(data) >= 4
        /\ identify(Self).exc = "" /\ identify(Self).kind = "tag")
          => /\ ret'.exc = ""
             /\ Len(data) < identify(Self).size
                  => /\ ret'.kind = "None"
                     /\ out' = out
                     /\ data' = data
                     /\ bytes_returned' = bytes_returned
             /\ Len(data) >= identify(Self).size
                  => /\ ret'.kind = "tag"
                     /\ out' = Append(out, LastItem')
                     /\ LastItem'.raw_data
                            = Slice(data, 0, identify(Self).size)
                     /\ Len(LastItem'.raw_data) = identify(Self).size
                     /\ data' = From(data, identify(Self).size)
                     /\ bytes_returned'
                            = bytes_returned + identify(Self).size
                     /\ synced'
    /\ (ret'.op = "fromfile" \/ (ret'.op = "readitem" /\ ret'.kind = "None"))
          => bytes_returned' = bytes_returned
    /\ (ret'.op = "readitem" /\ ret'.kind = "frame" /\ out # <<>>
        /\ LastItem.kind = "tag")
          => /\ ~LastItem'.resynced
             /\ LastItem'.byte_position = bytes_returned
             /\ Len(out) = 1
                  => LastItem'.byte_position = Len(out[1].raw_data)

\* C8: when identify finds a tag of n bytes at the start of the buffer,
\* readitem returns None and removes nothing while fewer than n bytes are
\* buffered; with n bytes buffered it returns one Tag of the first n bytes,
\* removes them, adds n to bytes_returned and sets synced = true.  No call
\* that returns nothing changes bytes_returned, so the Frame returned right
\* after a Tag has resynced = false and the byte_position that the Tag left.
C8_TagThenFrame == [][C8_Step]_vars

\* C8's case: a Tag of 12 bytes was returned first and a Frame right after it
C8_Witness ==
    /\ ret.op = "readitem"
    /\ ret.kind = "frame"
    /\ Len(out) = 2
    /\ out[1].kind = "tag"
    /\ Len(out[1].raw_data) = 12
    /\ LastItem.byte_position = 12
    /\ ~LastItem.resynced

----------------------------------------------------------------------------
(* C9 *)

\* what C9 gives for a buffer of n bytes that starts with 'TAG'
ID3v1Answer(n, eof) ==
    IF eof /\ n = 128 THEN 128
    ELSE IF n < 128 /\ ~eof THEN -1
    ELSE 0

\* C9: for a buffer that starts with 'TAG', id3v1_size is 128 exactly when
\* EOF is signalled and the buffer holds 128 bytes, -1 with fewer than 128
\* bytes before EOF, and 0 otherwise; identify_tag and identify (which
\* leaves the buffer as it is) answer accordingly.
C9_ID3v1Size ==
    /\ (Len(data) >= 3 /\ startswith(data, TAG, 0))
          => /\ id3v1_size(data, read_eof, 0)
                    = ID3v1Answer(Len(data), read_eof)
             /\ identify_tag(data, read_eof).exc = ""
             /\ identify_tag(data, read_eof).size
                    = ID3v1Answer(Len(data), read_eof)
             /\ identify_tag(data, read_eof).type = "id3v1"
                    <=> (read_eof /\ Len(data) = 128)
    /\ (ret.op = "identify" /\ Len(data) >= 4 /\ startswith(data, TAG, 0))
          => /\ ret.exc = ""
             /\ (ret.kind = "tag" /\ ret.size = 128)
                    <=> (read_eof /\ Len(data) = 128)
             /\ ret.kind = "None" <=> (~read_eof /\ Len(data) < 128)

\* C9's case: identify was called after EOF on 128 bytes that start with
\* 'TAG', and answered with a tag of 128 bytes
C9_Witness ==
    /\ ret.op = "identify"
    /\ Len(data) = 128
    /\ startswith(data, TAG, 0)
    /\ read_eof
    /\ ret.kind = "tag"
    /\ ret.size = 128

----------------------------------------------------------------------------
(* C10 *)

C10_Step ==
    ret'.op = "advance"
        => IF 0 <= ret'.size /\ ret'.size <= Len(data)
           THEN /\ ret'.exc = ""
                /\ Len(data') = Len(data) - ret'.size
                /\ \A i \in 1..Len(data') : data'[i] = data[i + ret'.size]
                /\ bytes_returned' = bytes_returned + ret'.size
                /\ sync_skip' = IF sync_skip > ret'.size
                                THEN sync_skip - ret'.size ELSE 0
           ELSE /\ ret'.exc = "MP3UsageError"
                /\ data' = data
                /\ bytes_returned' = bytes_returned
                /\ sync_skip' = sync_skip

\* C10: advance(n) with 0 <= n <= len(data) removes the first n bytes of the
\* buffer, adds n to bytes_returned and sets sync_skip to
\* max(0, sync_skip - n); any other n raises MP3UsageError and changes none
\* of the three.
C10_Advance == [][C10_Step]_vars

\* C10's case: advance removed bytes from a buffer whose sync_skip was
\* larger than the number of bytes removed
C10_Witness ==
    /\ ret.op = "advance"
    /\ ret.exc = ""
    /\ ret.size > 0
    /\ sync_skip > 0

----------------------------------------------------------------------------
(* LogicalFrameAssembler: what a frame returned by LogicalFrameSync holds *)

IsLayer3(fr) == FrameHeader(fr.header).layer_index = 1

BeginOf(fr) == main_data_begin(FrameHeader(fr.header).version_index, fr.side_info)

MainLenOf(fr) == part2_3_bytes(FrameHeader(fr.header).version_index, FrameHeader(fr.header).channel_mode, fr.side_info)

\* the step is a readitem of a LogicalFrameSync that returns a frame
LogicalFrameStep ==
    /\ ret'.op = "logical_readitem"
    /\ ret'.exc = ""
    /\ ret'.kind = "frame"
    /\ Len(out') = Len(out) + 1

C11_Step ==
    (LogicalFrameStep /\ IsLayer3(out'[Len(out')])) =>
        LET fr       == out'[Len(out')]
            begin    == BeginOf(fr)
            main_len == MainLenOf(fr)
        IN  /\ fr.logical_none <=>
                   (\/ begin > Len(reservoir)
                    \/ main_len - begin > Len(fr.raw_body))
            /\ ~fr.logical_none =>
                   /\ Len(fr.logical_body) = main_len
                   /\ fr.logical_body =
                          Slice(Last(reservoir, begin) \o fr.raw_body,
                                0, main_len)

\* C11: for a layer 3 frame, frame_in returns None exactly when
\* main_data_begin exceeds the reservoir or the main data ends past raw_body;
\* otherwise it returns the first part2_3_bytes bytes of the last
\* main_data_begin bytes of the reservoir followed by raw_body.
C11_FrameIn == [][C11_Step]_vars

\* a first frame that reaches back further than the empty reservoir got
\* None, and the last frame took bytes of the reservoir and of its own body
C11_Witness ==
    /\ ret.op = "logical_readitem" /\ ret.kind = "frame"
    /\ Len(out) >= 2
    /\ out[1].kind = "frame" /\ IsLayer3(out[1]) /\ out[1].logical_none
    /\ BeginOf(out[1]) > 0
    /\ IsLayer3(out[Len(out)])
    /\ ~out[Len(out)].logical_none
    /\ BeginOf(out[Len(out)]) > 0
    /\ MainLenOf(out[Len(out)]) > BeginOf(out[Len(out)])

\* frames k.. are layer 3 and each one's main data begins 'unused' bytes
\* before its body, where the main data of the frame before it ended
RECURSIVE Contiguous(_, _, _)
Contiguous(frs, k, unused) ==
    \/ k > Len(frs)
    \/ /\ frs[k].kind = "frame"
       /\ IsLayer3(frs[k])
       /\ unused <= 511
       /\ BeginOf(frs[k]) = unused
       /\ MainLenOf(frs[k]) - unused <= Len(frs[k].raw_body)
       /\ Contiguous(frs, k + 1,
                     Len(frs[k].raw_body) - (MainLenOf(frs[k]) - unused))

RECURSIVE LogicalData(_, _)
LogicalData(frs, k) ==
    IF k > Len(frs) THEN <<>>
    ELSE frs[k].logical_body \o LogicalData(frs, k + 1)

RECURSIVE RawData(_, _)
RawData(frs, k) ==
    IF k > Len(frs) THEN <<>> ELSE frs[k].raw_body \o RawData(frs, k + 1)

\* C12: in a stream of layer 3 frames whose main data is contiguous, no
\* logical_body is None and the logical bodies concatenate to a prefix of
\* the concatenation of the raw bodies.
C12_LogicalStream ==
    Contiguous(out, 1, 0) =>
        /\ \A k \in 1..Len(out) : ~out[k].logical_none
        /\ Len(LogicalData(out, 1)) <= Len(RawData(out, 1))
        /\ LogicalData(out, 1) =
               Slice(RawData(out, 1), 0, Len(LogicalData(out, 1)))

\* eleven contiguous frames were returned; the reservoir was cut down to 511
\* bytes when the tenth was stored, and the eleventh reached back into it
C12_Witness ==
    /\ Len(out) = 11
    /\ Contiguous(out, 1, 0)
    /\ BeginOf(out[11]) > 0
    /\ Len(reservoir) < 1024

C13_Step ==
    (LogicalFrameStep /\ ~IsLayer3(out'[Len(out')])) =>
        /\ ~out'[Len(out')].logical_none
        /\ out'[Len(out')].logical_body = out'[Len(out')].raw_body
        /\ ancillary_skipped' = Len(reservoir) - last_end
        /\ out'[Len(out')].ancillary_skipped = Len(reservoir) - last_end
        /\ reservoir' = <<>>
        /\ last_end' = 0

\* C13: for a layer 1 or 2 frame, frame_in returns raw_body, sets
\* ancillary_skipped to len(reservoir) - last_end as they were, and leaves
\* the reservoir empty and last_end = 0.
C13_Layer12Clears == [][C13_Step]_vars

----------------------------------------------------------------------------
(* bitfields: what a write leaves in the byte array *)

\* bit i of the array, the most significant bit of byte 0 being bit 0
BitOf(raw, i) == (raw[(i \div 8) + 1] \div Pow2(7 - (i % 8))) % 2

\* C17: writing a value of the field's range sets the bits
\* [offset, offset + bits) so that reading the field returns the value, and
\* keeps every other bit of the array.
C17_FieldWrite ==
    (ret.op = "set" /\ InRange(args.val, args.bits)) =>
        /\ ret.exc = ""
        /\ Len(ret.val) = Len(args.raw)
        /\ bitfield_get(ret.val, args.offset, args.bits) = args.val
        /\ \A i \in 0..(8 * Len(args.raw) - 1) :
               (i < args.offset \/ i >= args.offset + args.bits) =>
                   BitOf(ret.val, i) = BitOf(args.raw, i)

\* the self-test's 32-bit field, which starts inside byte 1 and ends inside
\* byte 5, was written with the self-test's value
C17_Witness ==
    /\ ret.op = "set"
    /\ args.offset = 14 /\ args.bits = 32
    /\ args.val = 591951381
    /\ args.raw = <<175, 131, 153, 153, 153, 153>>
    /\ ret.val # args.raw

\* C18: writing a value below 0 or above the field's range fails with
\* UsageError and leaves the byte array as it was.
C18_FieldRange ==
    (ret.op = "set" /\ ~InRange(args.val, args.bits)) =>
        /\ ret.exc = "UsageError"
        /\ ret.val = args.raw

----------------------------------------------------------------------------
(* side_info: the block data of a granule *)

FlagOf(a) == blocksplit_flag(a.raw, a.version_index, a.offset)

\* the field is not one of the granule's fields while the flag is as it is
NotPresent(a) ==
    \/ FlagOf(a) = 1 /\ a.field \in {"region_address1", "region_address2"}
    \/ FlagOf(a) = 0 /\ a.field \in {"block_type", "switch_point", "subblock_gain"}

\* bit i is one of the 22 bits that follow the granule's blocksplit_flag
InBlock(a, i) ==
    /\ i >= blockdata_offset(a.version_index, a.offset)
    /\ i < blockdata_offset(a.version_index, a.offset) + 22

\* C19: an access of region_address1 or region_address2 while the flag is 1,
\* or of block_type, switch_point or subblock_gain while it is 0, fails with
\* UsageError and changes nothing; table_select is read and written in both
\* states, as 3 five-bit entries (flag 0) or 2 (flag 1); a write changes
\* bits of the 22-bit block after blocksplit_flag only.
C19_Blockdata ==
    (ret.op \in {"get", "set"}) =>
        /\ NotPresent(args) =>
               ret.exc = "MP3UsageError" /\ ret.val.raw = args.raw
        /\ (args.field = "table_select" /\ args.op = "get") =>
               /\ ret.exc = ""
               /\ Len(ret.val.val) = IF FlagOf(args) = 0 THEN 3 ELSE 2
               /\ \A k \in 1..Len(ret.val.val) : ret.val.val[k] \in 0..31
        /\ (/\ args.field = "table_select" /\ args.op = "set"
            /\ Len(args.val) = IF FlagOf(args) = 0 THEN 3 ELSE 2) =>
               /\ ret.exc = ""
               /\ get_blockdata_field(ret.val.raw, args.version_index,
                                      args.offset, "table_select").val
                      = args.val
        /\ \A i \in 0..(8 * Len(args.raw) - 1) :
               ~InBlock(args, i) => BitOf(ret.val.raw, i) = BitOf(args.raw, i)

----------------------------------------------------------------------------
(* frames.FrameHeader: decode and encode are inverse to each other *)

\* C14: a header whose top 11 bits are 1, decoded and encoded again with no
\* field changed, gives the same 4 bytes; fields within their ranges,
\* encoded and decoded again, give the same field values.
C14_HeaderRoundTrip ==
    /\ ret.op = "decode_encode" => (ret.exc = "" /\ ret.val = args.raw)
    /\ ret.op = "encode_decode" => (ret.exc = "" /\ ret.val = args.fields)

\* fields that differ from the default header's in every byte were encoded
\* and decoded
C14_Witness ==
    /\ ret.op = "encode_decode"
    /\ args.fields.version_index = 0
    /\ args.fields.private = 1
    /\ args.fields.bitrate_index = 15
    /\ args.fields.emphasis = 3
    /\ ret.val.private = 1

----------------------------------------------------------------------------
(* mp3bits: the size of a frame *)

\* version, layer and samplerate are not reserved
NotReserved(a) ==
    /\ a.version_index \in {0, 2, 3}
    /\ a.layer_index \in 1..3
    /\ a.samplerate_index \in 0..2

\* the multiplier and the sample size of the layer
MultOf(a) ==
    IF a.layer_index = 3 THEN 12
    ELSE IF a.layer_index = 1 /\ a.version_index # 3 THEN 72 ELSE 144

SampleSizeOf(a) == IF a.layer_index = 3 THEN 4 ELSE 1

\* ((mult * bitrate) div samplerate) * ss + (padded ? ss : 0)
SizeOf(a, bitrate_index, padded) ==
    (((MultOf(a) * bitrate(a.version_index, a.layer_index, bitrate_index).val)
         \div samplerate(a.version_index, a.samplerate_index).val)
        * SampleSizeOf(a))
    + (IF padded THEN SampleSizeOf(a) ELSE 0)

\* C15: for a version, layer and samplerate that are not reserved,
\* frame_size returns ((mult * bitrate) div samplerate) * ss, plus ss when
\* padded, for bitrate_index 1..14, and None for bitrate_index 0.
C15_FrameSize ==
    (ret.op = "frame_size" /\ NotReserved(args)) =>
        /\ args.bitrate_index \in 1..14 =>
               /\ ret.exc = ""
               /\ ~ret.val.none
               /\ ret.val.val = SizeOf(args, args.bitrate_index, args.padding # 0)
        /\ args.bitrate_index = 0 => (ret.exc = "" /\ ret.val.none)

\* the bitrate_index 1..14 whose frame, padded, holds the bytes asked for
Suffices(a) ==
    { i \in 1..14 :
          frame_size(a.version_index, a.layer_index, i, a.samplerate_index,
                     1).val >= a.bytes }

\* C16: min_bitrate_index returns the smallest bitrate_index whose frame,
\* padded or not, holds the bytes asked for, padded only when the unpadded
\* frame does not suffice, with the size that frame_size gives for the
\* index and the padding returned; it returns None exactly when no index
\* suffices.
C16_MinBitrateIndex ==
    (ret.op = "min_bitrate_index" /\ NotReserved(args)) =>
        /\ ret.exc = ""
        /\ ret.val.none <=> (Suffices(args) = {})
        /\ ~ret.val.none =>
               /\ ret.val.val.bitrate_index \in Suffices(args)
               /\ \A j \in Suffices(args) : ret.val.val.bitrate_index <= j
               /\ ~ret.val.val.padding <=>
                      (frame_size(args.version_index, args.layer_index,
                                  ret.val.val.bitrate_index,
                                  args.samplerate_index, 0).val >= args.bytes)
               /\ ret.val.val.size =
                      frame_size(args.version_index, args.layer_index,
                                 ret.val.val.bitrate_index,
                                 args.samplerate_index,
                                 IF ret.val.val.padding THEN 1 ELSE 0).val

----------------------------------------------------------------------------
(* frames: the CRC *)

\* the bit-serial CRC of the bytes of d, in order
RECURSIVE SerialCrc(_, _)
SerialCrc(d, start) ==
    IF d = <<>> THEN start
    ELSE Bind(crc16_bits(Head(d), 8, start),
              LAMBDA crc : SerialCrc(Tail(d), crc))

\* C20: crc16 equals the bit-serial crc16_bits applied to the bytes in order
\* and stays within 0..0xFFFF (0xAEE7 for '123456789' from 0xFFFF); for a
\* layer 3 frame with a CRC, calc_crc is that CRC from 0xFFFF over header
\* bytes 2..3 and the side info, and encode writes it into bytes 4..5.
C20_Crc ==
    /\ ret.op = "crc16" =>
           /\ ret.val = SerialCrc(args.d, args.start)
           /\ ret.val \in 0..65535
           /\ (args.d = CheckString /\ args.start = 65535) => ret.val = 44775
    /\ (/\ ret.op = "frame_encode" /\ ret.exc = ""
        /\ FrameHeader(args.fr.header).protection_bit = 0) =>
           /\ calc_crc(args.fr) =
                  SerialCrc(Slice(args.fr.header, 2, 4) \o args.fr.side_info,
                            65535)
           /\ ret.val[5] = calc_crc(args.fr) \div 256
           /\ ret.val[6] = calc_crc(args.fr) % 256

\* a frame of 24 bytes with a CRC and side info that is not all zero
\* was encoded
C20_Witness ==
    /\ ret.op = "frame_encode"
    /\ ret.exc = ""
    /\ args.validate
    /\ FrameHeader(args.fr.header).protection_bit = 0
    /\ args.fr.side_info = <<3, 0, 24, 1, 2, 3, 4, 5, 6>>
    /\ Len(ret.val) = 24
    /\ <<ret.val[5], ret.val[6]>> # <<0, 0>>

----------------------------------------------------------------------------
(* frames: the body at an offset *)

\* the offset of the call lies outside -len(side_info)..len(raw_body), or
\* is negative on a frame that is not of layer 3
OffsetOutOfRange ==
    \/ args.offset < -Len(args.fr.side_info)
    \/ args.offset < 0 /\ FrameHeader(args.fr.header).layer_index # 1
    \/ args.offset > Len(args.fr.raw_body)

\* C21: get_body_at_offset and set_body_at_offset fail with MP3UsageError
\* and leave side_info and raw_body unchanged for every offset out of range,
\* and a successful set_body_at_offset with a negative offset keeps the
\* length of the side info.
C21_BodyOffset ==
    ret.op \in {"get_body_at_offset", "set_body_at_offset"} =>
        /\ OffsetOutOfRange =>
               /\ ret.exc = "MP3UsageError"
               /\ ret.val.fr = args.fr
        /\ (/\ ret.op = "set_body_at_offset"
            /\ ret.exc = ""
            /\ args.offset < 0) =>
               Len(ret.val.fr.side_info) = Len(args.fr.side_info)

----------------------------------------------------------------------------
(* BaseSync.resync and sync_skip *)

\* the positions resync may return: at or after the offset and the
\* sync_skip the call began with, the byte 0xFF, four bytes in the buffer,
\* and the masked header equal to the one sought
SyncPositions ==
    { p \in Max(args.offset, args.sync_skip)..(Len(data) - 4) :
          /\ data[p + 1] = 255
          /\ is_sync(data, p, args.header, args.mask) }

\* C22: resync(offset, header, mask) returns the smallest position
\* p >= max(offset, sync_skip) where the byte is 0xFF, four bytes are in
\* the buffer and (head & mask) = header, and -1 exactly when there is none.
C22_Resync ==
    ret.op = "resync" =>
        IF SyncPositions = {} THEN ret.size = -1
        ELSE /\ ret.size \in SyncPositions
             /\ \A p \in SyncPositions : ret.size <= p

\* C23: 0 <= sync_skip <= len(data) in every state
C23_SyncSkipRange == 0 <= sync_skip /\ sync_skip <= Len(data)

----------------------------------------------------------------------------
(* free-format frames with base_framesize = 0 *)

C24_Step ==
    (ReaditemOnSync /\ FreeFormatAt(data) /\ base_framesize = 0
     /\ SameHeaderAt(data) # {})
        => \E p \in SameHeaderAt(data) :
              /\ \A q \in SameHeaderAt(data) : p <= q
              /\ ret'.exc = ""
              /\ ret'.kind = "frame"
              /\ ret'.size = p
              /\ base_framesize' = 0

\* C24: with base_framesize = 0, readitem on a free-format frame returns the
\* Frame that ends at the next header, from headsz + sidesz +
\* max(0, part2_3_end) on, with the same version, layer, protection_bit,
\* samplerate_index and bitrate_index 0, whatever the padded and private
\* bits of the two headers are, and base_framesize stays 0.
C24_NoCacheSize == [][C24_Step]_vars

----------------------------------------------------------------------------
(* free-format headers that no header follows *)

\* readitem is called on a free-format header whose side info is in the
\* buffer, the size is to be searched for (base_framesize is 0, or with the
\* padding it adds up to 0), and no header after the start of the search
\* equals it under 0xFFFFFC00
SearchFindsNone ==
    /\ ReaditemOnSync
    /\ FreeFormatAt(data)
    /\ base_framesize + (IF base_framesize = 0 THEN 0 ELSE PaddingBytes(data))
           = 0
    /\ FreeSearchStart(data) < Len(data)
    /\ SameHeaderAt(data) = {}

C25_Step ==
    /\ (SearchFindsNone /\ Len(data) >= 8192)
          => /\ ret'.exc = ""
             /\ ret'.kind = "garbage"
             /\ LastItem'.raw_data = <<data[1]>>
             /\ data' = Tail(data)
             /\ ~synced'
             /\ sync_skip' = 0
    /\ (SearchFindsNone /\ Len(data) < 8192 /\ ~read_eof)
          => /\ ret'.exc = ""
             /\ ret'.kind = "None"
             /\ data' = data
             /\ out' = out
             /\ bytes_returned' = bytes_returned

\* C25: when the search for the size of a free-format frame finds no
\* header, readitem with 8192 bytes or more in the buffer returns Garbage of
\* 1 byte, clears synced and sets sync_skip to 0; with fewer bytes and no
\* EOF it returns None and removes nothing from the buffer.
C25_SearchFails == [][C25_Step]_vars

\* readitem returned the first byte of a free-format header as Garbage from
\* a buffer of 8192 bytes or more
C25_Witness ==
    /\ ret.op = "readitem"
    /\ ret.exc = ""
    /\ ret.kind = "garbage"
    /\ LastItem.raw_data = <<255>>
    /\ Len(data) >= 8191
    /\ data[1] = 243
    /\ data[2] \in {4, 6}
    /\ bytes_returned = 1
    /\ sync_skip = 0
    /\ ~synced

\* the buffer ends with an ID3v1 tag: more than 128 bytes, and 'TAG' 128
\* bytes before the end
TrailingTag(d) == Len(d) > 128 /\ startswith(Last(d, 128), TAG, 0)

C26_Step ==
    /\ (SearchFindsNone /\ Len(data) < 8192 /\ read_eof)
          => /\ ret'.exc = ""
             /\ ret'.kind = "frame"
             /\ ret'.size = Len(data) - (IF TrailingTag(data) THEN 128 ELSE 0)
             /\ data' = From(data, ret'.size)
    /\ (ret'.op = "readitem" /\ read_eof /\ Len(data) = 128
        /\ startswith(data, TAG, 0))
          => /\ ret'.kind = "tag"
             /\ ret'.size = 128
    /\ ret'.op = "readitem" => ret'.exc # "AssertionError"
    /\ (ReaditemOnSync /\ FreeFormatAt(data) /\ ret'.kind = "frame")
          => /\ ret'.size > 0
             /\ ret'.size >= FreeSearchStart(data)

\* C26: when the search for the size of a free-format frame finds no
\* header, fewer than 8192 bytes are in the buffer and EOF was signalled,
\* readitem returns the Frame of all the bytes left but a trailing ID3v1 tag
\* of 128 bytes, which the next readitem returns as a Tag; the size of a
\* free-format frame is positive and at least headsz + sidesz +
\* max(0, part2_3_end), and no AssertionError is raised.
C26_FrameToEOF == [][C26_Step]_vars

----------------------------------------------------------------------------
(* resynced *)

\* C27: a Frame is returned with resynced = true exactly when the item
\* returned before it was Garbage; the first item, a Frame after a Frame and
\* a Frame after a Tag have resynced = false.
C27_Resynced ==
    \A i \in 1..Len(out) :
        out[i].kind = "frame" =>
            (out[i].resynced <=> (i > 1 /\ out[i - 1].kind = "garbage"))

\* the three noise bytes were returned as Garbage, then a whole frame as a
\* Frame with resynced = true
C27_Witness ==
    /\ Len(out) = 2
    /\ out[1].kind = "garbage"
    /\ out[1].raw_data = SegNoise
    /\ out[2].kind = "frame"
    /\ ItemBytes(out[2]) = SegFrame
    /\ out[2].resynced

----------------------------------------------------------------------------
(* the reservoir *)

\* the assembler after the first k items were returned
RECURSIVE AsmAfter(_, _)
AsmAfter(frs, k) ==
    IF k = 0 THEN [reservoir |-> <<>>, last_end |-> 0, ancillary_skipped |-> 0]
    ELSE IF frs[k].kind # "frame" THEN AsmAfter(frs, k - 1)
    ELSE frame_in(AsmAfter(frs, k - 1), frs[k]).self

\* the raw bodies, one after the other, of the layer 3 frames among the
\* first k items that came since the reservoir was last empty
RECURSIVE SinceEmpty(_, _)
SinceEmpty(frs, k) ==
    IF k = 0 THEN <<>>
    ELSE IF frs[k].kind # "frame" THEN SinceEmpty(frs, k - 1)
    ELSE IF AsmAfter(frs, k).reservoir = <<>> THEN <<>>
    ELSE SinceEmpty(frs, k - 1)
         \o (IF IsLayer3(frs[k]) THEN frs[k].raw_body ELSE <<>>)

\* s is the end of t
IsSuffix(s, t) == Len(s) <= Len(t) /\ s = Last(t, Len(s))

\* C28: after frame_in of a layer 3 frame the reservoir is a suffix of the
\* raw bodies of the layer 3 frames received since it was last empty, it
\* holds at least min(511, their length) bytes and at most
\* max(4096, len(raw_body)) bytes.
C28_Reservoir ==
    (/\ ret.op = "logical_readitem" /\ ret.exc = "" /\ ret.kind = "frame"
     /\ IsLayer3(LastItem)) =>
        /\ IsSuffix(reservoir, SinceEmpty(out, Len(out)))
        /\ Len(reservoir) >= Min(511, Len(SinceEmpty(out, Len(out))))
        /\ Len(reservoir) <= Max(4096, Len(LastItem.raw_body))

\* ten frames with bodies of 419 bytes came and the reservoir was cut down
\* to 511 bytes
C28_Witness ==
    /\ ret.op = "logical_readitem" /\ ret.kind = "frame"
    /\ Len(out) = 10
    /\ IsLayer3(LastItem)
    /\ Len(SinceEmpty(out, 10)) = 4190
    /\ Len(reservoir) = 511

----------------------------------------------------------------------------
(* last_end and ancillary_skipped *)

C29_Step ==
    LET fr == out'[Len(out')]
    IN  /\ (LogicalFrameStep /\ IsLayer3(fr) /\ ~fr.logical_none) =>
               last_end' = Len(reservoir') - Len(fr.raw_body)
                           + (MainLenOf(fr) - BeginOf(fr))
        /\ (LogicalFrameStep /\ IsLayer3(fr)) =>
               /\ ancillary_skipped' = Len(reservoir) - last_end - BeginOf(fr)
               /\ fr.ancillary_skipped = ancillary_skipped'
        /\ (LogicalFrameStep /\ Contiguous(out', 1, 0)) =>
               fr.ancillary_skipped = 0

\* C29: after frame_in returned the data of a layer 3 frame, last_end is
\* the index in the reservoir, as it is then, where the frame's main data
\* ends; ancillary_skipped of the next layer 3 frame is
\* len(reservoir) - last_end - main_data_begin, the number of bytes between
\* the end of the main data of the frame before and the start of its own,
\* which is 0 when the main data is contiguous.
C29_LastEnd == [][C29_Step]_vars

----------------------------------------------------------------------------
(* the items do not depend on the feeds *)

\* a PhysicalFrameSync that was given all the bytes of f in one feed, with
\* the EOF
FedAtOnce(f) ==
    [ data |-> f, bytes_returned |-> 0, read_eof |-> TRUE, sync_skip |-> 0,
      synced |-> TRUE, frames_returned |-> 0, base_framesize |-> -1 ]

\* the items that readitem returns, called on s until it returns None
RECURSIVE ReadAll(_)
ReadAll(s) ==
    Bind(readitem(s), LAMBDA r :
        IF r.exc # "" \/ r.kind = "None" THEN <<>>
        ELSE <<r.item>> \o ReadAll(r.self))

\* the kinds and the bytes of the items
KindsAndBytes(items) ==
    [i \in 1..Len(items) |-> <<items[i].kind, ItemBytes(items[i])>>]

\* C30: the items returned for a file depend on its bytes only: whatever
\* the feeds were and whenever readitem was called, once EOF is signalled
\* and readitem returns None the items returned are those of a sync that
\* was given the whole file at once.
C30_SameItems ==
    (ret.op = "readitem" /\ ret.exc = "" /\ ret.kind = "None" /\ read_eof)
        => KindsAndBytes(out) = KindsAndBytes(ReadAll(FedAtOnce(input)))

====
